---- MODULE Spec2Model ----
(***************************************************************************)
(* A model of the app-build orchestration pipeline (buildNativefierApp and *)
(* its helpers).  JavaScript values are tagged records, strings are        *)
(* sequences of tokens, paths are sequences of path components.            *)
(***************************************************************************)
EXTENDS Integers, Sequences, FiniteSets, TLC

VARIABLES
    request,            \* the request as the caller passed it (never mutated; for reference)
    rawOptions,         \* the RawOptions object, mutated by buildNativefierApp
    options,            \* the AppOptions resolved by getOptions
    host,               \* the host process: os, admin, wine, root
    pc,                 \* the suspension point buildNativefierApp is at
    finalOutDirectory,
    tmpPath,
    appPathArray,       \* what the packaging engine returned
    appPath,
    fs,                 \* the filesystem: path -> node
    tmpCount,           \* temporary directories created so far
    warns,              \* log.warn calls, in order
    logLevel,
    ops,                \* external operations started, in order
    error,              \* the error buildNativefierApp rejected with
    result,             \* the path buildNativefierApp resolved with
    thrown,             \* the error raised last that nothing inside the build caught
    call,               \* a call of a pure helper: its input and output
    other,              \* a second build of the same process, suspended at an await
    app                 \* the main process of a built app: its ipc handlers' state

vars == <<request, rawOptions, options, host, pc, finalOutDirectory, tmpPath,
          appPathArray, appPath, fs, tmpCount, warns, logLevel, ops, error, result,
          thrown, call, other, app>>

buildVars == <<request, rawOptions, options, host, pc, finalOutDirectory, tmpPath,
               appPathArray, appPath, fs, tmpCount, warns, logLevel, ops, error, result,
               thrown, other>>

-----------------------------------------------------------------------------
(* Bounds *)

\* the most paths the packaging engine returns to a build
MaxResultLen == 2

\* the longest path array getAppPath is called with on its own
MaxArrayLen == 3

\* the most 'session-interaction' messages the main process receives
MaxRequests == 2

\* the most notifications a page constructs
MaxNotifications == 3

\* the most steps the clock of the renderer makes
MaxTicks == 3

\* the most calls and messages that emit events of notifications
MaxEvents == 3

\* the depth of nested calls at which the engine throws a RangeError
MaxStack == 4

-----------------------------------------------------------------------------
(* JavaScript values *)

Undefined == [t |-> "undefined"]
Str(s) == [t |-> "string", v |-> s]
Bool(b) == [t |-> "boolean", v |-> b]

\* JavaScript truthiness of undefined, strings and booleans
Truthy(x) ==
    CASE x.t = "undefined" -> FALSE
      [] x.t = "string" -> x.v # <<>>
      [] x.t = "boolean" -> x.v

IsString(x) == x.t = "string"

-----------------------------------------------------------------------------
(* Paths *)

NoPath == <<>>

\* the string a value holds
pathOf(value) == IF IsString(value) THEN value.v ELSE NoPath

\* path.join(p, c) for one more component
Join(p, c) == Append(p, c)

Join3(p, c, d, e) == Append(Append(Append(p, c), d), e)

\* path.dirname
Dirname(p) == IF Len(p) = 0 THEN p ELSE SubSeq(p, 1, Len(p) - 1)

\* path.basename
Basename(p) == IF Len(p) = 0 THEN <<>> ELSE p[Len(p)]

\* q is p or lies under p
Under(p, q) == Len(p) <= Len(q) /\ SubSeq(q, 1, Len(p)) = p

\* the path q (under src) re-rooted at dst
Reroot(src, dst, q) == dst \o SubSeq(q, Len(src) + 1, Len(q))

Cwd == << <<"cwd">> >>
TmpRoot == << <<"tmp">> >>
HomeDir == << <<"home">>, <<"user">> >>
OptRoot == << <<"opt">> >>

\* where a prior install lives, and an upgrade path holding none
PriorRoot == << <<"opt">>, <<"O", "l", "d", "A", "p", "p">> >>
EmptyDir == << <<"srv">>, <<"empty">> >>
\* an explicit output directory
SomeOut == << <<"tmp">>, <<"out">> >>
TemplateDir == << <<"nativefier">>, <<"app">> >>

PriorName == <<"O", "l", "d", "A", "p", "p">>
DefaultName == <<"A", "P", "P">>
Names == {<<"F", "o", "o">>, <<"M", "y", " ", "A", "\t", "p">>}
Whitespace == {" ", "\t", "\n"}
SomeUrl == <<"https://", "example.com">>
Platforms == {"darwin", "mas", "linux", "win32"}
Archs == <<"x64", "arm64", "ia32", "armv7l">>
TempIds == <<"1", "2", "3">>

\* octal 0755
Mode755 == 493

-----------------------------------------------------------------------------
(* The filesystem *)

NoContent == [Name |-> <<>>, Comment |-> <<>>, ExecPath |-> NoPath, ExecArgs |-> <<>>,
              Icon |-> NoPath, StartupWMClass |-> <<>>, StartupNotify |-> <<>>,
              Categories |-> <<>>]

DirNode(tag) == [kind |-> "dir", tag |-> tag, mode |-> Mode755, content |-> NoContent]
FileNode(tag, mode, content) == [kind |-> "file", tag |-> tag, mode |-> mode, content |-> content]

Exists(f, p) == p \in DOMAIN f
IsDir(f, p) == p \in DOMAIN f /\ f[p].kind = "dir"

\* f with node n at path p
FsPut(f, p, n) == [q \in DOMAIN f \cup {p} |-> IF q = p THEN n ELSE f[q]]

\* fs.remove / rm -rf: p and everything under it
FsRemove(f, p) == [q \in {r \in DOMAIN f : ~Under(p, r)} |-> f[q]]

\* the nodes at and under src
Tree(f, src) == {q \in DOMAIN f : Under(src, q)}

\* the nodes T of the tree at src copied to dst
FsCopyNodes(f, src, dst, T, overwrite) ==
    LET targets == {Reroot(src, dst, q) : q \in T}
        from(t) == CHOOSE q \in T : Reroot(src, dst, q) = t
    IN  [t \in DOMAIN f \cup targets |->
            IF t \in targets /\ (overwrite \/ t \notin DOMAIN f)
            THEN f[from(t)] ELSE f[t]]

\* fs.copy(src, dst, {overwrite}) that succeeds
FsCopy(f, src, dst, overwrite) == FsCopyNodes(f, src, dst, Tree(f, src), overwrite)

\* the filesystems an fs.copy that fails can leave: a directory is copied before
\* what it holds, and something is left uncopied; nothing is copied of a source
\* that is not there
FsCopyFailed(f, src, dst, overwrite) ==
    IF Tree(f, src) = {} THEN {f}
    ELSE {FsCopyNodes(f, src, dst, T, overwrite) :
            T \in {U \in SUBSET Tree(f, src) :
                     /\ U # Tree(f, src)
                     /\ \A q \in U : q = src \/ Dirname(q) \in U \/ Dirname(q) \notin Tree(f, src)}}

\* fs.copy can succeed: the source exists, the destination is not the source or inside it
CanCopy(f, src, dst) == Exists(f, src) /\ ~Under(src, dst)

\* what the packaging engine leaves at a build path
BuildTree(p, platform, name) ==
    IF platform \in {"darwin", "mas"}
    THEN (p :> DirNode("new"))
         @@ (Join(p, name \o <<".app">>) :> DirNode("new"))
         @@ (Join3(p, name \o <<".app">>, <<"Contents">>, <<"Frameworks">>) :> DirNode("new"))
    ELSE (p :> DirNode("new"))
         @@ (Join(p, name) :> FileNode("new", Mode755, NoContent))

\* the prior install on disk before the build, built for `platform`
PriorTree(platform) ==
    LET t == BuildTree(PriorRoot, platform, PriorName)
    IN  [q \in DOMAIN t |-> [t[q] EXCEPT !.tag = "old"]]

InitialFs(platform) ==
    PriorTree(platform)
    @@ (EmptyDir :> DirNode("other"))
    @@ (TemplateDir :> DirNode("template"))

-----------------------------------------------------------------------------
(* Logging *)

Warn(msg) == [msg |-> msg, fields |-> {}]
WarnFields(msg, fields) == [msg |-> msg, fields |-> fields]

-----------------------------------------------------------------------------
(* Pure helpers of the build *)

OPTIONS_REQUIRING_WINDOWS_FOR_WINDOWS_BUILD ==
    {"icon", "appCopyright", "appVersion", "buildVersion", "versionString", "win32metadata"}

Arr(a) == [t |-> "array", v |-> a]

\* getAppPath with the anomaly warning raised for any non-empty array and the
\* last element taken
getAppPathLast(p) ==
    IF p.t # "array" THEN [value |-> p, warns |-> <<>>]
    ELSE IF Len(p.v) = 0 THEN [value |-> Undefined, warns |-> <<>>]
    ELSE [value |-> Str(p.v[Len(p.v)]),
          warns |-> IF Len(p.v) >= 1 THEN <<Warn("more than one element")>> ELSE <<>>]

\* getAppPath: the path of a packaging result, and the warnings it logs
getAppPath(p) ==
    IF p.t # "array" THEN [value |-> p, warns |-> <<>>]
    ELSE IF Len(p.v) = 0 THEN [value |-> Undefined, warns |-> <<>>]
    ELSE [value |-> Str(p.v[1]),
          warns |-> IF Len(p.v) > 1 THEN <<Warn("more than one element")>> ELSE <<>>]

\* isUpgrade taking any truthy upgrade field for a path
isUpgradeTruthy(raw) ==
    IF Truthy(raw.upgrade)
    THEN [ret |-> TRUE,
          raw |-> [raw EXCEPT !.upgradeFrom = raw.upgrade, !.upgrade = Bool(TRUE)]]
    ELSE [ret |-> FALSE, raw |-> raw]

\* isUpgrade flipping the flag without recording the path
isUpgradeFlagOnly(raw) ==
    IF raw.upgrade # Undefined /\ IsString(raw.upgrade) /\ raw.upgrade # Str(<<>>)
    THEN [ret |-> TRUE, raw |-> [raw EXCEPT !.upgrade = Bool(TRUE)]]
    ELSE [ret |-> FALSE, raw |-> raw]

\* isUpgrade: its return value and the request as it leaves it
isUpgrade(raw) ==
    IF raw.upgrade # Undefined /\ IsString(raw.upgrade) /\ raw.upgrade # Str(<<>>)
    THEN [ret |-> TRUE,
          raw |-> [raw EXCEPT !.upgradeFrom = raw.upgrade, !.upgrade = Bool(TRUE)]]
    ELSE [ret |-> FALSE, raw |-> raw]

isWindows(h) == h.os = "win32"
hasWine(h) == h.wine
isWindowsAdmin(h) == h.admin

\* Object.entries(options) filtered: the keys of the options object itself that
\* are in the list and hold a truthy value (an object value is truthy)
optionsPresent(opts) ==
    {key \in DOMAIN opts :
        /\ key \in OPTIONS_REQUIRING_WINDOWS_FOR_WINDOWS_BUILD
        /\ (IF key \in {"packager", "nativefier"} THEN TRUE ELSE Truthy(opts[key]))}

\* trimUnprocessableOptions without the Wine test, clearing the engine's fields
trimWithoutWineTest(opts, h) ==
    IF opts.packager.platform = "win32" /\ ~isWindows(h)
    THEN LET present == {key \in OPTIONS_REQUIRING_WINDOWS_FOR_WINDOWS_BUILD :
                            Truthy(opts.packager[key])}
         IN  IF present = {}
             THEN [options |-> opts, warns |-> <<>>]
             ELSE [options |-> [opts EXCEPT !.packager =
                                  [key \in DOMAIN opts.packager |->
                                      IF key \in present THEN Undefined ELSE opts.packager[key]]],
                   warns |-> <<WarnFields("*Not* setting, as couldn't find Wine", present)>>]
    ELSE [options |-> opts, warns |-> <<>>]

\* trimUnprocessableOptions: the options as it leaves them, and the warnings it logs
trimUnprocessableOptions(opts, h) ==
    IF opts.packager.platform = "win32" /\ ~isWindows(h) /\ ~hasWine(h)
    THEN IF optionsPresent(opts) = {}
         THEN [options |-> opts, warns |-> <<>>]
         ELSE [options |-> [key \in DOMAIN opts |->
                              IF key \in optionsPresent(opts) THEN Undefined ELSE opts[key]],
               warns |-> <<WarnFields("*Not* setting, as couldn't find Wine", optionsPresent(opts))>>]
    ELSE [options |-> opts, warns |-> <<>>]

Exts == {".png", ".ico", ".icns"}

\* path.extname of a path whose last component is <<stem, ext>>
Extname(p) ==
    LET b == Basename(p)
    IN  IF Len(b) >= 2 /\ b[Len(b)] \in Exts THEN <<b[Len(b)]>> ELSE <<>>

NoCopy == [copy |-> FALSE, src |-> NoPath, dst |-> NoPath]

\* copyIconsIfNecessary copying the tray icon whatever the tray mode
copyIconsIgnoringTray(opts, stagedPath) ==
    IF ~Truthy(opts.packager.icon) THEN NoCopy
    ELSE IF opts.packager.platform = "darwin" \/ opts.packager.platform = "mas"
    THEN [copy |-> TRUE,
          src |-> Join(Dirname(opts.packager.icon.v), <<"tray-icon", ".png">>),
          dst |-> Join(stagedPath, <<"icon", ".png">>)]
    ELSE [copy |-> TRUE,
          src |-> opts.packager.icon.v,
          dst |-> Join(stagedPath, <<"icon">> \o Extname(opts.packager.icon.v))]

\* copyIconsIfNecessary naming every copied icon icon.png
copyIconsForcedPng(opts, stagedPath) ==
    IF ~Truthy(opts.packager.icon) THEN NoCopy
    ELSE IF opts.packager.platform = "darwin" \/ opts.packager.platform = "mas"
    THEN IF opts.nativefier.tray # "false"
         THEN [copy |-> TRUE,
               src |-> Join(Dirname(opts.packager.icon.v), <<"tray-icon", ".png">>),
               dst |-> Join(stagedPath, <<"icon", ".png">>)]
         ELSE NoCopy
    ELSE [copy |-> TRUE,
          src |-> opts.packager.icon.v,
          dst |-> Join(stagedPath, <<"icon", ".png">>)]

\* copyIconsIfNecessary up to its fs.copy: the copy it starts, if any
copyIconsIfNecessary(opts, stagedPath) ==
    IF ~Truthy(opts.packager.icon) THEN NoCopy
    ELSE IF opts.packager.platform = "darwin" \/ opts.packager.platform = "mas"
    THEN IF opts.nativefier.tray # "false"
         THEN [copy |-> TRUE,
               src |-> Join(Dirname(opts.packager.icon.v), <<"tray-icon", ".png">>),
               dst |-> Join(stagedPath, <<"icon", ".png">>)]
         ELSE NoCopy
    ELSE [copy |-> TRUE,
          src |-> opts.packager.icon.v,
          dst |-> Join(stagedPath, <<"icon">> \o Extname(opts.packager.icon.v))]

\* the name with its spaces removed, other whitespace kept
cleanNameSpacesOnly(appName) == SelectSeq(appName, LAMBDA c : c # " ")

\* appName.replace(/\s+/g, '')
cleanName(appName) == SelectSeq(appName, LAMBDA c : c \notin Whitespace)

\* the desktop entry createLinuxDesktopLauncher writes
desktopFileContent(p, appName, targetUrl) ==
    [Name |-> appName,
     Comment |-> <<"App for ">> \o targetUrl,
     ExecPath |-> Join(p, Basename(<<appName>>)),
     ExecArgs |-> <<"%U">>,
     Icon |-> Join3(p, <<"resources">>, <<"app">>, <<"icon", ".png">>),
     StartupWMClass |-> cleanName(appName),
     StartupNotify |-> <<"true">>,
     Categories |-> <<"Network;WebBrowser;">>]

\* the desktop entry installLinuxApp writes
updatedDesktopContent(optPath, appName) ==
    [Name |-> appName,
     Comment |-> <<"App for ">> \o appName,
     ExecPath |-> Join(optPath, appName),
     ExecArgs |-> <<"%U">>,
     Icon |-> Join3(optPath, <<"resources">>, <<"app">>, <<"icon", ".png">>),
     StartupWMClass |-> cleanName(appName),
     StartupNotify |-> <<"true">>,
     Categories |-> <<"Network;WebBrowser;">>]

desktopFileName(appName) == appName \o <<".desktop">>

-----------------------------------------------------------------------------
(* Collaborators that are not part of these sources *)

NoApp == [found |-> FALSE, appRoot |-> NoPath,
          options |-> [name |-> Undefined, targetUrl |-> Undefined]]

\* UpgradeDetector.find: the prior install at a path, if any
findUpgradeApp(f, p) ==
    IF p = PriorRoot /\ Exists(f, PriorRoot)
    THEN [found |-> TRUE, appRoot |-> PriorRoot,
          options |-> [name |-> Str(PriorName), targetUrl |-> Str(SomeUrl)]]
    ELSE NoApp

\* UpgradeDetector.mergeDefaults: the saved configuration supplies the fields
\* absent in the request; explicit fields of the request win
useOldAppOptions(raw, oldApp) ==
    [key \in DOMAIN raw |->
        IF key \in DOMAIN oldApp.options /\ raw[key] = Undefined
        THEN oldApp.options[key] ELSE raw[key]]

\* OptionsResolver.resolve succeeds on a request with a target URL
getOptionsValid(raw) == Truthy(raw.targetUrl)

\* the names OptionsResolver.resolve can leave in the configuration: the request's
\* name, or for a request without one a default name or none (name is an optional
\* field, read as options.packager.name ?? '' at line 352)
resolvedNames(raw) ==
    IF Truthy(raw.name) THEN {raw.name} ELSE {Str(DefaultName), Undefined}

\* OptionsResolver.resolve: a new value holding the request's fields
getOptions(raw, name) ==
    [packager |->
        [platform |-> raw.platform,
         name |-> name,
         targetUrl |-> raw.targetUrl,
         icon |-> raw.icon,
         out |-> raw.out,
         overwrite |-> raw.overwrite,
         upgrade |-> Bool(Truthy(raw.upgrade)),
         upgradeFrom |-> raw.upgradeFrom,
         dir |-> Str(TemplateDir),
         quiet |-> Undefined,
         appCopyright |-> Undefined,
         appVersion |-> raw.appVersion,
         buildVersion |-> Undefined,
         versionString |-> Undefined,
         win32metadata |-> Undefined],
     nativefier |-> [tray |-> raw.tray]]

\* getTempDir(prefix, mode): the directory the n-th call creates
getTempDir(prefix, n) == Join(TmpRoot, <<prefix, TempIds[n]>>)

-----------------------------------------------------------------------------
(* The build: its inputs *)

IconPath == << <<"x">>, <<"icon", ".png">> >>
TrayIconPath == << <<"x">>, <<"tray-icon", ".png">> >>
ConvertedIconPath == << <<"tmp">>, <<"converted">>, <<"icon", ".icns">> >>
DefaultOut == Join(Cwd, <<"output-apps">>)

\* the requests the model builds from; fields that only matter together are
\* varied together
Requests ==
    {r \in [upgrade : {Undefined, Str(<<>>), Str(PriorRoot), Str(EmptyDir)},
            upgradeFrom : {Undefined},
            out : {Undefined, Str(SomeOut), Str(PriorRoot)},
            overwrite : {Undefined, Bool(TRUE)},
            quiet : {Undefined, Bool(TRUE)},
            verbose : {Undefined, Bool(TRUE)},
            platform : Platforms,
            name : {Undefined} \cup {Str(n) : n \in Names},
            targetUrl : {Undefined, Str(SomeUrl)},
            icon : {Undefined, Str(IconPath)},
            appVersion : {Undefined},
            tray : {"false", "true"}] :
        /\ (r.verbose = Bool(TRUE) => r.quiet = Undefined /\ r.upgrade = Undefined)
        /\ (r.quiet = Bool(TRUE) => r.upgrade = Undefined /\ r.icon = Undefined)
        /\ (r.name = Str(<<"M", "y", " ", "A", "\t", "p">>) => r.platform = "linux")
        /\ (r.tray = "true" => r.icon # Undefined /\ r.platform \in {"darwin", "mas"})
        /\ (r.name = Undefined => r.upgrade \in {Str(PriorRoot), Undefined})
        /\ (r.out = Str(PriorRoot) => r.upgrade = Str(PriorRoot))
        /\ (r.upgrade = Str(<<>>) => r.out = Undefined /\ r.icon = Undefined)}

\* admin rights are a property of a Windows host; Wine and the user id of the others
Hosts ==
    {h \in [os : {"win32", "linux", "darwin"}, admin : BOOLEAN, wine : BOOLEAN, root : BOOLEAN] :
        /\ (h.os # "win32" => ~h.admin)
        /\ (h.os = "win32" => ~h.wine /\ ~h.root)
        /\ (h.os = "darwin" => ~h.wine /\ ~h.root)}

NoOptions == getOptions([upgrade |-> Undefined, upgradeFrom |-> Undefined, out |-> Undefined,
                         overwrite |-> Undefined, quiet |-> Undefined, verbose |-> Undefined,
                         platform |-> "none", name |-> Undefined, targetUrl |-> Undefined,
                         icon |-> Undefined, appVersion |-> Undefined, tray |-> "false"],
                        Str(DefaultName))

NoError == [kind |-> "none", at |-> "none"]
Err(kind, at) == [kind |-> kind, at |-> at]
Op(name, a, b) == [op |-> name, a |-> a, b |-> b]
NoCall == [fn |-> "none"]

IconFile == FileNode("icon", 420, NoContent)

\* what the disk holds of the icon the request names and of the tray icon beside it:
\* both files, or neither when the build will look for one of them
IconsOnDisk(r) ==
    {(IconPath :> IconFile) @@ (TrayIconPath :> IconFile)}
    \cup IF Truthy(r.icon) /\ (r.platform \in {"linux", "win32"} \/ r.tray # "false")
         THEN {<<>>}
         ELSE {}

\* the hosts a request is built on: a host fact is varied for the targets it matters to
HostsFor(r) ==
    {h \in Hosts :
        /\ (h.admin => r.platform = "darwin")
        /\ (h.wine => r.platform = "win32")
        /\ (h.root => r.platform = "linux")
        /\ (h.os = "darwin" => r.platform \in {"darwin", "mas"})}

InitBuild ==
    /\ request \in Requests
    /\ rawOptions = request
    /\ options = NoOptions
    /\ host \in HostsFor(request)
    /\ pc = "start"
    /\ finalOutDirectory = NoPath
    /\ tmpPath = NoPath
    /\ appPathArray = Undefined
    /\ appPath = NoPath
    /\ fs \in {InitialFs(request.platform) @@ icons : icons \in IconsOnDisk(request)}
    /\ tmpCount = 0
    /\ warns = <<>>
    /\ logLevel = "warn"
    /\ ops = <<>>
    /\ error = NoError
    /\ result = NoPath
    /\ thrown = NoError

\* no second build was started
NoBuild == [id |-> 0]

\* no built app is running
AppNotRunning == [running |-> FALSE]

Init == InitBuild /\ call = NoCall /\ other = NoBuild /\ app = AppNotRunning

-----------------------------------------------------------------------------
(* buildNativefierApp, one action per suspension point *)

Banner == Warn("Nativefier is minimally maintained")

\* an error is raised at the current point, outside any try block: the build
\* rejects with it
Fail(kind) ==
    /\ thrown' = Err(kind, pc)
    /\ error' = Err(kind, pc)
    /\ pc' = "failed"

\* the test of line 284 never finding the prior install missing
upgradeMissingIgnored(oldApp) == FALSE

\* line 284: !oldApp
upgradeNotFound(oldApp) == ~oldApp.found

\* lines 261-299: from the call to the await of getOptions
Start ==
    /\ pc = "start"
    /\ LET raw1 == IF ~Truthy(rawOptions.out)
                   THEN [rawOptions EXCEPT !.out = Str(DefaultOut)]
                   ELSE rawOptions
           up == isUpgrade(raw1)
           oldApp == IF up.ret THEN findUpgradeApp(fs, up.raw.upgradeFrom.v) ELSE NoApp
           merged == useOldAppOptions(up.raw, oldApp)
           redirect == merged.out = Undefined /\ Truthy(merged.overwrite)
           tmp == getTempDir("appUpgrade", tmpCount + 1)
       IN  /\ logLevel' = IF Truthy(rawOptions.quiet) THEN "silent" ELSE logLevel
           /\ warns' = Append(warns, Banner)
           /\ IF up.ret /\ upgradeNotFound(oldApp)
              THEN /\ Fail("UpgradeNotFound")
                   /\ rawOptions' = up.raw
                   /\ finalOutDirectory' = raw1.out.v
                   /\ UNCHANGED <<fs, tmpCount, ops>>
              ELSE IF up.ret /\ redirect
              THEN /\ rawOptions' = [merged EXCEPT !.out = Str(tmp)]
                   /\ finalOutDirectory' = oldApp.appRoot
                   /\ fs' = FsPut(fs, tmp, DirNode("temp"))
                   /\ tmpCount' = tmpCount + 1
                   /\ ops' = Append(Append(ops, Op("getTempDir", tmp, NoPath)),
                                    Op("getOptions", NoPath, NoPath))
                   /\ pc' = "getOptions"
                   /\ UNCHANGED <<error, thrown>>
              ELSE /\ rawOptions' = IF up.ret THEN merged ELSE up.raw
                   /\ finalOutDirectory' = raw1.out.v
                   /\ ops' = Append(ops, Op("getOptions", NoPath, NoPath))
                   /\ pc' = "getOptions"
                   /\ UNCHANGED <<fs, tmpCount, error, thrown>>
    /\ UNCHANGED <<request, options, host, tmpPath, appPathArray, appPath, result, call, other, app>>

\* the platform guard without the administrator test
platformGuardNoAdminTest(opts, h) ==
    opts.packager.platform = "darwin" /\ isWindows(h)

\* lines 302-316: the platform guard throws
platformGuardFails(opts, h) ==
    opts.packager.platform = "darwin" /\ isWindows(h) /\ ~isWindowsAdmin(h)

\* lines 299-320: getOptions settles; the platform guard; staging starts
GetOptionsReturns ==
    /\ pc = "getOptions"
    /\ \/ /\ Fail("ValidationError")
          /\ UNCHANGED <<options, tmpPath, fs, tmpCount, ops>>
       \/ /\ getOptionsValid(rawOptions)
          /\ \E name \in resolvedNames(rawOptions) :
             LET opts == getOptions(rawOptions, name)
                 tmp == getTempDir("app", tmpCount + 1)
             IN  /\ options' = opts
                 /\ IF platformGuardFails(opts, host)
                    THEN /\ Fail("InsufficientPrivileges")
                         /\ UNCHANGED <<tmpPath, fs, tmpCount, ops>>
                    ELSE /\ tmpPath' = tmp
                         /\ fs' = FsPut(fs, tmp, DirNode("temp"))
                         /\ tmpCount' = tmpCount + 1
                         /\ ops' = Append(Append(ops, Op("getTempDir", tmp, NoPath)),
                                          Op("prepareElectronApp", opts.packager.dir.v, tmp))
                         /\ pc' = "prepareElectronApp"
                         /\ UNCHANGED <<error, thrown>>
    /\ UNCHANGED <<request, rawOptions, host, finalOutDirectory, appPathArray, appPath, warns,
                   logLevel, result, call, other, app>>

\* the files IconConverter.convert writes: the converted icon and, for a macOS
\* bundle with tray mode not disabled, the tray icon beside it
convertedFs(f, opts) ==
    LET f1 == FsPut(f, ConvertedIconPath, IconFile)
    IN  IF opts.packager.platform \in {"darwin", "mas"} /\ opts.nativefier.tray # "false"
        THEN FsPut(f1, Join(Dirname(ConvertedIconPath), <<"tray-icon", ".png">>), IconFile)
        ELSE f1

\* IconConverter.convert: the icon left as it is, or an icon that is on disk
\* converted to the target's format; the options and the filesystem it leaves
convertIconIfNecessary(opts, f) ==
    {[options |-> opts, fs |-> f]}
    \cup IF Truthy(opts.packager.icon) /\ Exists(f, opts.packager.icon.v)
         THEN {[options |-> [opts EXCEPT !.packager.icon = Str(ConvertedIconPath)],
                fs |-> convertedFs(f, opts)]}
         ELSE {}

\* line 323 left out: the engine's directory stays the template
stagedOptionsKeepDir(opts, tmp) == opts

\* line 323: options.packager.dir = tmpPath
stagedOptions(opts, tmp) == [opts EXCEPT !.packager.dir = Str(tmp)]

\* lines 327-334: from the end of copyIconsIfNecessary to the await of electronPackager,
\* after the calls `called`
BeforePackaging(opts, called) ==
    LET quieted == [opts EXCEPT !.packager.quiet = Bool(~Truthy(rawOptions.verbose))]
        trimmed == trimUnprocessableOptions(quieted, host)
    IN  /\ options' = trimmed.options
        /\ warns' = warns \o trimmed.warns
        /\ ops' = Append(Append(called, Op("trimUnprocessableOptions", NoPath, NoPath)),
                         Op("electronPackager", pathOf(trimmed.options.packager.dir), NoPath))
        /\ pc' = "electronPackager"

\* the rejection of prepareElectronApp caught and the build going on
StagingFailureIgnored ==
    /\ thrown' = Err("IOError", pc)
    /\ pc' = "electronPackager"
    /\ ops' = Append(ops, Op("electronPackager", tmpPath, NoPath))
    /\ UNCHANGED <<options, fs, warns, error>>

\* line 320: prepareElectronApp rejects, outside any try block
StagingFails ==
    /\ Fail("IOError")
    /\ UNCHANGED <<options, fs, warns, ops>>

\* the rejection of the icon copy caught and logged, and the build going on
IconCopyFailureLogged ==
    /\ thrown' = Err("IOError", pc)
    /\ warns' = Append(warns, Warn("Failed to copy icon"))
    /\ pc' = "electronPackager"
    /\ ops' = Append(ops, Op("electronPackager", pathOf(options.packager.dir), NoPath))
    /\ UNCHANGED <<options, fs, error>>

\* lines 52, 67 and 325: fs.copy rejects, outside any try block
IconCopyFails ==
    /\ Fail("IOError")
    /\ UNCHANGED <<options, fs, warns, ops>>

\* lines 320-325: staging settles; icon conversion; the icon copy starts
PrepareElectronAppReturns ==
    /\ pc = "prepareElectronApp"
    /\ LET staged == FsPut(fs, tmpPath, DirNode("staged"))
           called == Append(ops, Op("convertIconIfNecessary", NoPath, NoPath))
       IN  \/ StagingFails
           \/ /\ Truthy(options.packager.icon)
              /\ Fail("IconConversionError")
              /\ fs' = staged
              /\ options' = stagedOptions(options, tmpPath)
              /\ ops' = called
              /\ UNCHANGED warns
           \/ /\ \E converted \in convertIconIfNecessary(stagedOptions(options, tmpPath), staged) :
                    LET plan == copyIconsIfNecessary(converted.options, tmpPath)
                    IN  /\ fs' = converted.fs
                        /\ IF plan.copy
                           THEN /\ options' = converted.options
                                /\ ops' = Append(called, Op("copy", plan.src, plan.dst))
                                /\ pc' = "copyIcons"
                                /\ UNCHANGED warns
                           ELSE BeforePackaging(converted.options, called)
              /\ UNCHANGED <<error, thrown>>
    /\ UNCHANGED <<request, rawOptions, host, finalOutDirectory, tmpPath, appPathArray, appPath,
                   tmpCount, logLevel, result, call, other, app>>

\* lines 325-334: the icon copy settles; constraint filtering; packaging starts
CopyIconsReturns ==
    /\ pc = "copyIcons"
    /\ LET plan == copyIconsIfNecessary(options, tmpPath)
       IN  \/ IconCopyFails
           \/ /\ CanCopy(fs, plan.src, plan.dst)
              /\ fs' = FsCopy(fs, plan.src, plan.dst, TRUE)
              /\ BeforePackaging(options, ops)
              /\ UNCHANGED <<error, thrown>>
    /\ UNCHANGED <<request, rawOptions, host, finalOutDirectory, tmpPath, appPathArray, appPath,
                   tmpCount, logLevel, result, call, other, app>>

\* options.packager.name ?? ''
nameOrEmpty(opts) == IF opts.packager.name = Undefined THEN <<>> ELSE opts.packager.name.v

bundleName(opts) == nameOrEmpty(opts) \o <<".app">>

\* lines 352-359: the frameworks directory of the destination bundle
frameworksPath(final, opts) == Join3(final, bundleName(opts), <<"Contents">>, <<"Frameworks">>)

\* lines 343-347
isOverwriteUpgrade(opts) ==
    /\ Truthy(opts.packager.upgrade)
    /\ Truthy(opts.packager.upgradeFrom)
    /\ Truthy(opts.packager.overwrite)

\* lines 366-378: the source and the destination of the relocating copy
relocateSrc(p, opts) ==
    IF opts.packager.platform = "darwin" THEN Join(p, bundleName(opts)) ELSE p

relocateDst(final, opts) ==
    IF opts.packager.platform = "darwin" THEN Join(final, bundleName(opts)) ELSE final

\* the Linux integration run for whatever target has a name and a URL
wantsIntegrationAnyPlatform(opts) ==
    /\ Truthy(opts.packager.name)
    /\ Truthy(opts.packager.targetUrl)

\* line 385
wantsLinuxIntegration(opts) ==
    /\ opts.packager.platform = "linux"
    /\ Truthy(opts.packager.name)
    /\ Truthy(opts.packager.targetUrl)

\* lines 384-401: from the end of the relocation to the next await or the return
Finalize(p) ==
    IF wantsLinuxIntegration(options)
    THEN /\ pc' = "launcherReaddir"
         /\ ops' = Append(ops, Op("readdir", p, NoPath))
         /\ UNCHANGED result
    ELSE /\ pc' = "done"
         /\ result' = p
         /\ UNCHANGED ops

\* the paths PackagingEngine.pack returns for n target architectures
packagedPaths(opts, n) ==
    [i \in 1..n |->
        Join(opts.packager.out.v,
             nameOrEmpty(opts) \o <<"-", opts.packager.platform, "-", Archs[i]>>)]

\* the filesystem after PackagingEngine.pack built the paths
packagedFs(f, opts, paths) ==
    LET outDir == opts.packager.out.v
        f0 == IF Exists(f, outDir) THEN f ELSE FsPut(f, outDir, DirNode("out"))
        trees == [q \in UNION {DOMAIN BuildTree(paths[i], opts.packager.platform, nameOrEmpty(opts)) :
                                  i \in 1..Len(paths)} |-> DirNode("new")]
    IN  [q \in DOMAIN f0 \cup DOMAIN trees |->
            IF q \in DOMAIN trees
            THEN LET i == CHOOSE j \in 1..Len(paths) : Under(paths[j], q)
                 IN  BuildTree(paths[i], opts.packager.platform, nameOrEmpty(opts))[q]
            ELSE f0[q]]

\* the test of line 339 catching the empty string only
appPathEmptyString(value) == value = Str(<<>>)

\* line 339: !appPath
appPathMissing(value) == ~Truthy(value)

\* the errors the packaging engine rejects with
EngineErrors == {"EngineError", "ENOSPC"}

\* the rejection of the packaging engine caught and replaced by an error of the build
EngineFailureWrapped(e) ==
    /\ thrown' = Err(e, pc)
    /\ error' = Err("Packaging failed", pc)
    /\ pc' = "failed"
    /\ UNCHANGED <<appPathArray, appPath, fs, warns, ops, result>>

\* line 334: electronPackager rejects, outside any try block
EngineFails(e) ==
    /\ Fail(e)
    /\ UNCHANGED <<appPathArray, appPath, fs, warns, ops, result>>

\* the frameworks pre-delete made for every target of the macOS bundle family
needsFrameworksDeleteMacFamily(opts) == opts.packager.platform \in {"darwin", "mas"}

\* line 348: options.packager.platform === 'darwin'
needsFrameworksDelete(opts) == opts.packager.platform = "darwin"

\* lines 334-347: packaging settles; its result is normalised; relocation starts
ElectronPackagerReturns ==
    /\ pc = "electronPackager"
    /\ \/ \E e \in EngineErrors : EngineFails(e)
       \/ \E n \in 0..MaxResultLen :
            /\ LET paths == packagedPaths(options, n)
                   got == getAppPath(Arr(paths))
               IN  /\ appPathArray' = Arr(paths)
                   /\ fs' = packagedFs(fs, options, paths)
                   /\ warns' = warns \o got.warns
                   /\ IF appPathMissing(got.value)
                      THEN /\ Fail("App Path could not be determined")
                           /\ UNCHANGED <<appPath, ops, result>>
                      ELSE /\ appPath' = pathOf(got.value)
                           /\ UNCHANGED <<error, thrown>>
                           /\ IF isOverwriteUpgrade(options)
                              THEN /\ UNCHANGED result
                                   /\ IF needsFrameworksDelete(options)
                                      THEN /\ pc' = "removeFrameworks"
                                           /\ ops' = Append(ops,
                                                Op("remove", frameworksPath(finalOutDirectory, options), NoPath))
                                      ELSE /\ pc' = "relocateCopy"
                                           /\ ops' = Append(ops,
                                                Op("copy", pathOf(got.value), finalOutDirectory))
                              ELSE Finalize(pathOf(got.value))
    /\ UNCHANGED <<request, rawOptions, options, host, finalOutDirectory, tmpPath,
                   tmpCount, logLevel, call, other, app>>

\* the rejection of the frameworks pre-delete caught without a word
FrameworksDeleteFailsSilently == UNCHANGED <<warns, fs>>

\* lines 360-365: the rejection of the frameworks pre-delete is caught and logged
FrameworksDeleteFails ==
    /\ warns' = Append(warns, Warn("error when attempting to pre-delete old frameworks"))
    /\ UNCHANGED fs

\* lines 349-373: the frameworks pre-delete settles (a failure is logged); the copy starts
RemoveFrameworksReturns ==
    /\ pc = "removeFrameworks"
    /\ \/ /\ fs' = FsRemove(fs, frameworksPath(finalOutDirectory, options))
          /\ UNCHANGED warns
       \/ FrameworksDeleteFails
    /\ pc' = "relocateCopy"
    /\ ops' = Append(ops, Op("copy", relocateSrc(appPath, options),
                             relocateDst(finalOutDirectory, options)))
    /\ UNCHANGED <<request, rawOptions, options, host, finalOutDirectory, tmpPath,
                   appPathArray, appPath, tmpCount, logLevel, error, thrown, result, call, other, app>>

\* the rejection of the relocating copy followed by a removal of the build output
RelocationCopyFailsCleanly ==
    /\ fs' = FsRemove(fs, appPath)
    /\ Fail("IOError")
    /\ UNCHANGED ops

\* lines 366-378: fs.copy rejects, outside any try block, leaving what it copied
RelocationCopyFails ==
    /\ fs' \in FsCopyFailed(fs, relocateSrc(appPath, options),
                             relocateDst(finalOutDirectory, options),
                             Truthy(options.packager.overwrite))
    /\ Fail("IOError")
    /\ UNCHANGED ops

\* lines 366-380: the relocating copy settles; the removal of the build output starts
RelocateCopyReturns ==
    /\ pc = "relocateCopy"
    /\ LET src == relocateSrc(appPath, options)
           dst == relocateDst(finalOutDirectory, options)
       IN  \/ RelocationCopyFails
           \/ /\ CanCopy(fs, src, dst)
              /\ fs' = FsCopy(fs, src, dst, Truthy(options.packager.overwrite))
              /\ pc' = "removeTemp"
              /\ ops' = Append(ops, Op("remove", appPath, NoPath))
              /\ UNCHANGED <<error, thrown>>
    /\ UNCHANGED <<request, rawOptions, options, host, finalOutDirectory, tmpPath,
                   appPathArray, appPath, tmpCount, warns, logLevel, result, call, other, app>>

\* lines 380-401: the removal of the build output settles; the destination becomes the result
RemoveTempReturns ==
    /\ pc = "removeTemp"
    /\ \/ /\ Fail("IOError")
          /\ UNCHANGED <<fs, appPath, ops, result>>
       \/ /\ fs' = FsRemove(fs, appPath)
          /\ appPath' = finalOutDirectory
          /\ Finalize(finalOutDirectory)
          /\ UNCHANGED <<error, thrown>>
    /\ UNCHANGED <<request, rawOptions, options, host, finalOutDirectory, tmpPath,
                   appPathArray, tmpCount, warns, logLevel, call, other, app>>

-----------------------------------------------------------------------------
(* createLinuxDesktopLauncher and installLinuxApp, as awaited by the build *)

appName == options.packager.name.v

\* the desktop entry placed beside the build directory
desktopFileBeside(p, name) == Join(Dirname(p), desktopFileName(name))

\* line 157 and line 179
desktopFilePath(p, name) == Join(p, desktopFileName(name))

\* line 176
optPath(name) == Join(OptRoot, name)

\* line 178
desktopDir == Join3(HomeDir, <<".local">>, <<"share">>, <<"applications">>)

\* line 180
desktopFileDest(name) == Join(desktopDir, desktopFileName(name))

\* fs.writeFile: the file with the content; an existing file keeps its mode
FsWriteFile(f, p, content) ==
    FsPut(f, p, FileNode("written", IF Exists(f, p) THEN f[p].mode ELSE 420, content))

\* fs.chmod
FsChmod(f, p, mode) == [f EXCEPT ![p].mode = mode]

\* lines 163-165, then line 393 up to the first await of installLinuxApp
LauncherCaught ==
    /\ warns' = Append(warns, Warn("Failed to create desktop launcher"))
    /\ pc' = "installImport"
    /\ ops' = Append(ops, Op("import", NoPath, NoPath))

\* lines 134-158: readdir settles; the desktop entry is composed and its write starts
LauncherReaddirReturns ==
    /\ pc = "launcherReaddir"
    /\ \/ LauncherCaught
       \/ /\ IsDir(fs, appPath)
          /\ pc' = "launcherWrite"
          /\ ops' = Append(ops, Op("writeFile", desktopFilePath(appPath, appName), NoPath))
          /\ UNCHANGED warns
    /\ UNCHANGED <<request, rawOptions, options, host, finalOutDirectory, tmpPath,
                   appPathArray, appPath, fs, tmpCount, logLevel, error, thrown, result, call, other, app>>

\* lines 158-159: the write settles; chmod starts
LauncherWriteReturns ==
    /\ pc = "launcherWrite"
    /\ \/ LauncherCaught /\ UNCHANGED fs
       \/ /\ IsDir(fs, appPath)
          /\ fs' = FsWriteFile(fs, desktopFilePath(appPath, appName),
                               desktopFileContent(appPath, appName, options.packager.targetUrl.v))
          /\ pc' = "launcherChmod"
          /\ ops' = Append(ops, Op("chmod", desktopFilePath(appPath, appName), NoPath))
          /\ UNCHANGED warns
    /\ UNCHANGED <<request, rawOptions, options, host, finalOutDirectory, tmpPath,
                   appPathArray, appPath, tmpCount, logLevel, error, thrown, result, call, other, app>>

\* lines 159-166: chmod settles; the launcher is done and installLinuxApp starts
LauncherChmodReturns ==
    /\ pc = "launcherChmod"
    /\ \/ LauncherCaught /\ UNCHANGED fs
       \/ /\ Exists(fs, desktopFilePath(appPath, appName))
          /\ fs' = FsChmod(fs, desktopFilePath(appPath, appName), Mode755)
          /\ pc' = "installImport"
          /\ ops' = Append(ops, Op("import", NoPath, NoPath))
          /\ UNCHANGED warns
    /\ UNCHANGED <<request, rawOptions, options, host, finalOutDirectory, tmpPath,
                   appPathArray, appPath, tmpCount, logLevel, error, thrown, result, call, other, app>>

\* the failure of the system install escaping its try block
InstallRethrows ==
    /\ warns' = warns
    /\ pc' = "failed"
    /\ result' = result

\* lines 240-243, then lines 396-401: the failure is logged and the build returns
InstallCaught ==
    /\ warns' = Append(warns, Warn("Failed to install app to /opt"))
    /\ pc' = "done"
    /\ result' = appPath

\* line 185: process.getuid is undefined on Windows
needsSudo(h) == h.os # "win32" /\ ~h.root

\* cp -r src dst: into dst when dst is a directory, else as dst
cpTarget(f, src, dst) == IF IsDir(f, dst) THEN Join(dst, Basename(src)) ELSE dst

\* the exit status of cp never looked at
sudoCopyStatusIgnored(cpOk) == FALSE

\* lines 195-197: cpResult.status !== 0
sudoCopyFailed(cpOk) == ~cpOk

\* lines 173-207: the imports settle; with sudo the three commands run synchronously
InstallImportReturns ==
    /\ pc = "installImport"
    /\ \/ InstallCaught /\ UNCHANGED <<fs, ops>>
       \/ /\ ~needsSudo(host)
          /\ pc' = "installRemove"
          /\ ops' = Append(ops, Op("remove", optPath(appName), NoPath))
          /\ UNCHANGED <<fs, warns, result>>
       \/ /\ needsSudo(host)
          /\ \E rmOk \in BOOLEAN, cpOk \in BOOLEAN :
               LET f1 == IF rmOk THEN FsRemove(fs, optPath(appName)) ELSE fs
                   w1 == IF rmOk THEN warns
                         ELSE Append(warns, Warn("Failed to remove old installation"))
                   dst == cpTarget(f1, appPath, optPath(appName))
                   o2 == Append(Append(ops, Op("sudo rm", optPath(appName), NoPath)),
                                Op("sudo cp", appPath, optPath(appName)))
               IN  /\ IF cpOk
                      THEN /\ CanCopy(f1, appPath, dst)
                           /\ fs' = FsCopy(f1, appPath, dst, TRUE)
                      ELSE fs' \in FsCopyFailed(f1, appPath, dst, TRUE)
                   /\ IF sudoCopyFailed(cpOk)
                      THEN /\ warns' = Append(w1, Warn("Failed to install app to /opt"))
                           /\ ops' = o2
                           /\ pc' = "done"
                           /\ result' = appPath
                      ELSE /\ warns' = w1
                           /\ ops' = Append(Append(o2, Op("sudo chown", optPath(appName), NoPath)),
                                            Op("ensureDir", desktopDir, NoPath))
                           /\ pc' = "installEnsureDir"
                           /\ UNCHANGED result
    /\ UNCHANGED <<request, rawOptions, options, host, finalOutDirectory, tmpPath,
                   appPathArray, appPath, tmpCount, logLevel, error, thrown, call, other, app>>

\* lines 205-206: as root, the removal settles and the copy starts
InstallRemoveReturns ==
    /\ pc = "installRemove"
    /\ \/ InstallCaught /\ UNCHANGED <<fs, ops>>
       \/ /\ fs' = FsRemove(fs, optPath(appName))
          /\ pc' = "installCopy"
          /\ ops' = Append(ops, Op("copy", appPath, optPath(appName)))
          /\ UNCHANGED <<warns, result>>
    /\ UNCHANGED <<request, rawOptions, options, host, finalOutDirectory, tmpPath,
                   appPathArray, appPath, tmpCount, logLevel, error, thrown, call, other, app>>

\* lines 206-231: as root, the copy settles and ensureDir starts
InstallCopyReturns ==
    /\ pc = "installCopy"
    /\ \/ /\ InstallCaught
          /\ fs' \in FsCopyFailed(fs, appPath, optPath(appName), TRUE)
          /\ UNCHANGED ops
       \/ /\ CanCopy(fs, appPath, optPath(appName))
          /\ fs' = FsCopy(fs, appPath, optPath(appName), TRUE)
          /\ pc' = "installEnsureDir"
          /\ ops' = Append(ops, Op("ensureDir", desktopDir, NoPath))
          /\ UNCHANGED <<warns, result>>
    /\ UNCHANGED <<request, rawOptions, options, host, finalOutDirectory, tmpPath,
                   appPathArray, appPath, tmpCount, logLevel, error, thrown, call, other, app>>

\* lines 231-234: ensureDir settles and the write of the per-user entry starts
InstallEnsureDirReturns ==
    /\ pc = "installEnsureDir"
    /\ \/ InstallCaught /\ UNCHANGED <<fs, ops>>
       \/ /\ fs' = IF Exists(fs, desktopDir) THEN fs ELSE FsPut(fs, desktopDir, DirNode("dir"))
          /\ pc' = "installWrite"
          /\ ops' = Append(ops, Op("writeFile", desktopFileDest(appName), NoPath))
          /\ UNCHANGED <<warns, result>>
    /\ UNCHANGED <<request, rawOptions, options, host, finalOutDirectory, tmpPath,
                   appPathArray, appPath, tmpCount, logLevel, error, thrown, call, other, app>>

\* lines 234-235: the write settles and chmod starts
InstallWriteReturns ==
    /\ pc = "installWrite"
    /\ \/ InstallCaught /\ UNCHANGED <<fs, ops>>
       \/ /\ fs' = FsWriteFile(fs, desktopFileDest(appName),
                               updatedDesktopContent(optPath(appName), appName))
          /\ pc' = "installChmod"
          /\ ops' = Append(ops, Op("chmod", desktopFileDest(appName), NoPath))
          /\ UNCHANGED <<warns, result>>
    /\ UNCHANGED <<request, rawOptions, options, host, finalOutDirectory, tmpPath,
                   appPathArray, appPath, tmpCount, logLevel, error, thrown, call, other, app>>

\* lines 235-244, then lines 396-401: chmod settles and the build returns
InstallChmodReturns ==
    /\ pc = "installChmod"
    /\ \/ InstallCaught /\ UNCHANGED fs
       \/ /\ fs' = FsChmod(fs, desktopFileDest(appName), Mode755)
          /\ pc' = "done"
          /\ result' = appPath
          /\ UNCHANGED warns
    /\ UNCHANGED <<request, rawOptions, options, host, finalOutDirectory, tmpPath,
                   appPathArray, appPath, tmpCount, logLevel, ops, error, thrown, call, other, app>>

-----------------------------------------------------------------------------

Next ==
    \/ Start
    \/ GetOptionsReturns
    \/ PrepareElectronAppReturns
    \/ CopyIconsReturns
    \/ ElectronPackagerReturns
    \/ RemoveFrameworksReturns
    \/ RelocateCopyReturns
    \/ RemoveTempReturns
    \/ LauncherReaddirReturns
    \/ LauncherWriteReturns
    \/ LauncherChmodReturns
    \/ InstallImportReturns
    \/ InstallRemoveReturns
    \/ InstallCopyReturns
    \/ InstallEnsureDirReturns
    \/ InstallWriteReturns
    \/ InstallChmodReturns

Spec == Init /\ [][Next]_vars

-----------------------------------------------------------------------------
(* Two calls of buildNativefierApp in one process, interleaved at their awaits *)

OtherOut == << <<"tmp">>, <<"out2">> >>

\* what a call of buildNativefierApp has for itself: its argument and its locals.
\* The host, the filesystem, the names of the temporary directories and the level of
\* the loglevel module (line 6) belong to the process.
ThisBuild(id) ==
    [id |-> id, request |-> request, rawOptions |-> rawOptions, options |-> options,
     pc |-> pc, finalOutDirectory |-> finalOutDirectory, tmpPath |-> tmpPath,
     appPathArray |-> appPathArray, appPath |-> appPath, warns |-> warns, ops |-> ops,
     error |-> error, result |-> result, thrown |-> thrown]

\* a call that has not run yet
NewBuild(id, r) ==
    [id |-> id, request |-> r, rawOptions |-> r, options |-> NoOptions,
     pc |-> "start", finalOutDirectory |-> NoPath, tmpPath |-> NoPath,
     appPathArray |-> Undefined, appPath |-> NoPath, warns |-> <<>>, ops |-> <<>>,
     error |-> NoError, result |-> NoPath, thrown |-> NoError]

LinuxRequest(name, out, quiet) ==
    [upgrade |-> Undefined, upgradeFrom |-> Undefined, out |-> Str(out),
     overwrite |-> Undefined, quiet |-> quiet, verbose |-> Undefined,
     platform |-> "linux", name |-> Str(name), targetUrl |-> Str(SomeUrl),
     icon |-> Undefined, appVersion |-> Undefined, tray |-> "false"]

\* the pairs of requests built together, the first of a pair called first: Linux
\* apps with distinct output directories, of one name with one build quiet, or of
\* two names with no build quiet
RequestPairs ==
    {<<LinuxRequest(<<"F", "o", "o">>, SomeOut, Bool(TRUE)),
       LinuxRequest(<<"F", "o", "o">>, OtherOut, Undefined)>>,
     <<LinuxRequest(<<"F", "o", "o">>, SomeOut, Undefined),
       LinuxRequest(<<"M", "y", " ", "A", "\t", "p">>, OtherOut, Undefined)>>}

InitTwo ==
    /\ \E pair \in RequestPairs :
          /\ request = pair[1]
          /\ other = NewBuild(2, pair[2])
    /\ rawOptions = request
    /\ options = NoOptions
    /\ host \in {h \in Hosts : h.os = "linux" /\ ~h.wine}
    /\ pc = "start"
    /\ finalOutDirectory = NoPath
    /\ tmpPath = NoPath
    /\ appPathArray = Undefined
    /\ appPath = NoPath
    /\ fs = InitialFs("linux")
    /\ tmpCount = 0
    /\ warns = <<>>
    /\ logLevel = "warn"
    /\ ops = <<>>
    /\ error = NoError
    /\ result = NoPath
    /\ thrown = NoError
    /\ call = NoCall
    /\ app = AppNotRunning

\* the running call is suspended at its await (or is over) and the event loop runs
\* the other call; a call runs to its first await before anything else does
Switch ==
    /\ other # NoBuild
    /\ pc # "start"
    /\ other.pc \notin {"done", "failed"}
    /\ other' = ThisBuild(3 - other.id)
    /\ request' = other.request
    /\ rawOptions' = other.rawOptions
    /\ options' = other.options
    /\ pc' = other.pc
    /\ finalOutDirectory' = other.finalOutDirectory
    /\ tmpPath' = other.tmpPath
    /\ appPathArray' = other.appPathArray
    /\ appPath' = other.appPath
    /\ warns' = other.warns
    /\ ops' = other.ops
    /\ error' = other.error
    /\ result' = other.result
    /\ thrown' = other.thrown
    /\ UNCHANGED <<host, fs, tmpCount, logLevel, call, app>>

NextTwo ==
    \/ Start
    \/ GetOptionsReturns
    \/ PrepareElectronAppReturns
    \/ ElectronPackagerReturns
    \/ LauncherReaddirReturns
    \/ LauncherWriteReturns
    \/ LauncherChmodReturns
    \/ InstallImportReturns
    \/ InstallRemoveReturns
    \/ InstallCopyReturns
    \/ InstallEnsureDirReturns
    \/ InstallWriteReturns
    \/ InstallChmodReturns
    \/ Switch

SpecTwo == InitTwo /\ [][NextTwo]_vars

-----------------------------------------------------------------------------
(* The pure helpers called on their own *)

IdleRequest == [upgrade |-> Undefined, upgradeFrom |-> Undefined, out |-> Undefined,
                overwrite |-> Undefined, quiet |-> Undefined, verbose |-> Undefined,
                platform |-> "linux", name |-> Undefined, targetUrl |-> Undefined,
                icon |-> Undefined, appVersion |-> Undefined, tray |-> "false"]

\* no build is running
IdleBuild ==
    /\ request = IdleRequest
    /\ rawOptions = IdleRequest
    /\ options = NoOptions
    /\ host = [os |-> "linux", admin |-> FALSE, wine |-> FALSE, root |-> FALSE]
    /\ pc = "idle"
    /\ finalOutDirectory = NoPath
    /\ tmpPath = NoPath
    /\ appPathArray = Undefined
    /\ appPath = NoPath
    /\ fs = InitialFs("linux")
    /\ tmpCount = 0
    /\ warns = <<>>
    /\ logLevel = "warn"
    /\ ops = <<>>
    /\ error = NoError
    /\ result = NoPath
    /\ thrown = NoError
    /\ other = NoBuild

\* a value for a field of the list that is set
SetValue(key) == IF key = "icon" THEN Str(IconPath) ELSE Str(<<"1.0">>)

\* resolved options with the fields S of the list set, for a target platform
OptionsWith(S, platform) ==
    [NoOptions EXCEPT !.packager =
        [key \in DOMAIN NoOptions.packager |->
            IF key = "platform" THEN platform
            ELSE IF key \in S THEN SetValue(key)
            ELSE NoOptions.packager[key]]]

TrimInputs ==
    {OptionsWith(S, platform) :
        S \in SUBSET OPTIONS_REQUIRING_WINDOWS_FOR_WINDOWS_BUILD, platform \in Platforms}

NoTrim == [options |-> NoOptions, warns |-> <<>>]

InitTrim ==
    /\ IdleBuild
    /\ app = AppNotRunning
    /\ call \in {[fn |-> "trimUnprocessableOptions", in |-> o, host |-> h,
                  out |-> NoTrim, done |-> FALSE] : o \in TrimInputs, h \in Hosts}

CallTrim ==
    /\ call.fn = "trimUnprocessableOptions"
    /\ ~call.done
    /\ call' = [call EXCEPT !.out = trimUnprocessableOptions(call.in, call.host),
                            !.done = TRUE]
    /\ UNCHANGED <<buildVars, app>>

SpecTrim == InitTrim /\ [][CallTrim]_vars

SomePaths == {Join(SomeOut, <<"F", "o", "o", "-", "linux", "-", Archs[i]>>) : i \in 1..4}

RECURSIVE SeqsUpTo(_, _)
\* the sequences over S of length at most n
SeqsUpTo(S, n) ==
    IF n = 0 THEN {<<>>}
    ELSE LET shorter == SeqsUpTo(S, n - 1)
         IN  shorter \cup {Append(q, x) : q \in shorter, x \in S}

AppPathInputs ==
    {Arr(a) : a \in SeqsUpTo(SomePaths, MaxArrayLen)}
    \cup {Str(q) : q \in SomePaths \cup {NoPath}}

InitGetAppPath ==
    /\ IdleBuild
    /\ app = AppNotRunning
    /\ call \in {[fn |-> "getAppPath", in |-> a,
                  out |-> [value |-> Undefined, warns |-> <<>>], done |-> FALSE] :
                    a \in AppPathInputs}

CallGetAppPath ==
    /\ call.fn = "getAppPath"
    /\ ~call.done
    /\ call' = [call EXCEPT !.out = getAppPath(call.in), !.done = TRUE]
    /\ UNCHANGED <<buildVars, app>>

SpecGetAppPath == InitGetAppPath /\ [][CallGetAppPath]_vars

\* the requests isUpgrade is called with on its own: the upgrade field absent,
\* empty, a path, or a boolean; upgradeFrom absent or left over from the caller
UpgradeInputs ==
    [upgrade : {Undefined, Str(<<>>), Str(PriorRoot), Str(EmptyDir), Bool(TRUE), Bool(FALSE)},
     upgradeFrom : {Undefined, Str(SomeOut)},
     out : {Undefined, Str(SomeOut)},
     overwrite : {Undefined, Bool(TRUE)},
     quiet : {Undefined},
     verbose : {Undefined},
     platform : {"linux", "darwin"},
     name : {Undefined, Str(<<"F", "o", "o">>)},
     targetUrl : {Str(SomeUrl)},
     icon : {Undefined},
     appVersion : {Undefined},
     tray : {"false"}]

InitIsUpgrade ==
    /\ IdleBuild
    /\ app = AppNotRunning
    /\ call \in {[fn |-> "isUpgrade", in |-> r,
                  out |-> [ret |-> FALSE, raw |-> r], done |-> FALSE] : r \in UpgradeInputs}

CallIsUpgrade ==
    /\ call.fn = "isUpgrade"
    /\ ~call.done
    /\ call' = [call EXCEPT !.out = isUpgrade(call.in), !.done = TRUE]
    /\ UNCHANGED <<buildVars, app>>

SpecIsUpgrade == InitIsUpgrade /\ [][CallIsUpgrade]_vars

\* icons a configuration can name: with an extension, with two, with none, a dot
\* file, and a file that is itself named like the tray icon
IconInputs ==
    {Undefined, Str(NoPath),
     Str(IconPath),
     Str(<< <<"x">>, <<"icon", ".icns">> >>),
     Str(<< <<"y">>, <<"z">>, <<"logo", ".ico">> >>),
     Str(<< <<"y">>, <<"logo", ".tar", ".png">> >>),
     Str(<< <<"y">>, <<"logo">> >>),
     Str(<< <<"y">>, <<".icns">> >>),
     Str(TrayIconPath)}

TrayModes == {"false", "true", "start-in-tray"}

\* resolved options with an icon and a tray mode, for a target platform
OptionsWithIcon(icon, tray, platform) ==
    [NoOptions EXCEPT !.packager.platform = platform,
                      !.packager.icon = icon,
                      !.nativefier.tray = tray]

InitCopyIcons ==
    /\ IdleBuild
    /\ app = AppNotRunning
    /\ call \in {[fn |-> "copyIconsIfNecessary",
                  in |-> OptionsWithIcon(icon, tray, platform),
                  staged |-> getTempDir("app", n),
                  out |-> NoCopy, done |-> FALSE] :
                    icon \in IconInputs, tray \in TrayModes, platform \in Platforms,
                    n \in 1..2}

CallCopyIcons ==
    /\ call.fn = "copyIconsIfNecessary"
    /\ ~call.done
    /\ call' = [call EXCEPT !.out = copyIconsIfNecessary(call.in, call.staged),
                            !.done = TRUE]
    /\ UNCHANGED <<buildVars, app>>

SpecCopyIcons == InitCopyIcons /\ [][CallCopyIcons]_vars

-----------------------------------------------------------------------------
(* setupSessionInteraction (app/src/components/mainWindow.ts): the handler of
   'session-interaction' messages in the main process of a built app *)

\* a value event.reply cannot serialise
Unclonable == [t |-> "function"]

\* the values a session function returns or a promise resolves to
SessionValues == {Undefined, Str(<<"v">>), Unclonable}

\* the requests a renderer sends: a function to call, a property to read or to
\* set and read, or neither
SessionRequests ==
    {[func |-> f, property |-> q, propertyValue |-> v] :
        f \in {Undefined, Str(<<"f">>)},
        q \in {Undefined, Str(<<"p">>)},
        v \in {Undefined, Str(<<"v">>)}}

\* what window.webContents.session does with a request: a call returns a value or
\* a promise or throws; a property read gives a value; a property write may throw
SessionOutcomes(req) ==
    IF req.func # Undefined
    THEN {[kind |-> "returns", value |-> v] : v \in SessionValues}
         \cup {[kind |-> "promise", value |-> Undefined], [kind |-> "throws", value |-> Undefined]}
    ELSE IF req.property # Undefined
    THEN {[kind |-> "returns", value |-> v] : v \in SessionValues \ {Undefined}}
         \cup IF req.propertyValue # Undefined
              THEN {[kind |-> "throws", value |-> Undefined]}
              ELSE {}
    ELSE {[kind |-> "none", value |-> Undefined]}

\* how a promise a session function returned settles
Settlements ==
    {[kind |-> "resolves", value |-> v] : v \in SessionValues}
    \cup {[kind |-> "rejects", value |-> Undefined]}

LogError(a, msg, id) == [a EXCEPT !.logged = Append(@, [msg |-> msg, id |-> id])]

\* event.reply('session-interaction-reply', result) that sends
Reply(a, id, value, err) ==
    [a EXCEPT !.replies = Append(@, [id |-> id, value |-> value, error |-> err])]

\* lines 486-491: the catch block of the handler
HandlerCaught(a, id) ==
    Reply(LogError(a, "session-interaction:error", id), id, Undefined, Str(<<"Error">>))

\* lines 481-485: the reply with the value; a value that cannot be serialised makes
\* event.reply throw inside the try block
ReplyValue(a, id, value) ==
    IF value = Unclonable THEN HandlerCaught(a, id) ELSE Reply(a, id, value, Undefined)

\* lines 452-459: the continuation of the promise; whatever is thrown in it, and a
\* rejection of the promise, goes to the catch callback, which logs
PromiseContinues(a, id, settlement) ==
    IF settlement.kind = "resolves" /\ settlement.value # Unclonable
    THEN Reply(a, id, settlement.value, Undefined)
    ELSE LogError(a, "session-interaction ERROR", id)

InitSession ==
    /\ IdleBuild
    /\ call = NoCall
    /\ app = [running |-> TRUE, requests |-> <<>>, pending |-> {}, settled |-> <<>>,
              replies |-> <<>>, logged |-> <<>>]

\* lines 426-492: a 'session-interaction' message arrives and the handler runs
SessionInteraction ==
    /\ Len(app.requests) < MaxRequests
    /\ \E req \in SessionRequests :
         \E out \in SessionOutcomes(req) :
            LET id == Len(app.requests) + 1
                a0 == [app EXCEPT !.requests = Append(@, [id |-> id, request |-> req,
                                                           outcome |-> out])]
            IN  app' = IF req.func # Undefined
                       THEN IF out.kind = "throws" THEN HandlerCaught(a0, id)
                            ELSE IF out.kind = "promise"
                            THEN [a0 EXCEPT !.pending = @ \cup {id}]
                            ELSE ReplyValue(a0, id, out.value)
                       ELSE IF req.property # Undefined
                       THEN IF out.kind = "throws" THEN HandlerCaught(a0, id)
                            ELSE ReplyValue(a0, id, out.value)
                       ELSE HandlerCaught(a0, id)
    /\ UNCHANGED <<buildVars, call>>

\* lines 452-459: a promise returned by a session function settles
PromiseSettles ==
    /\ \E id \in app.pending :
         \E settlement \in Settlements :
            app' = PromiseContinues(
                       [app EXCEPT !.pending = @ \ {id},
                                   !.settled = Append(@, [id |-> id, how |-> settlement])],
                       id, settlement)
    /\ UNCHANGED <<buildVars, call>>

NextSession ==
    \/ SessionInteraction
    \/ PromiseSettles

SpecSession == InitSession /\ [][NextSession]_vars

-----------------------------------------------------------------------------
(* The notification bridge of the renderer (app/src/preload.ts) *)

Num(n) == [t |-> "number", v |-> n]
Null == [t |-> "null"]

\* an object with props.content, as a page passes rich text
Props(content) == [t |-> "object", content |-> content]

\* the milliseconds one step of Date.now() is
TickMs == 500

\* String.prototype.trim
RECURSIVE trim(_)
trim(s) ==
    IF s = <<>> THEN s
    ELSE IF Head(s) \in Whitespace THEN trim(Tail(s))
    ELSE IF s[Len(s)] \in Whitespace THEN trim(SubSeq(s, 1, Len(s) - 1))
    ELSE s

\* String(value) of a number or a boolean
StringOf(value) ==
    IF value.t = "number" THEN <<ToString(value.v)>>
    ELSE IF value.v THEN <<"true">> ELSE <<"false">>

RECURSIVE normalizeNotificationContent(_)
RECURSIVE joinContent(_)

\* lines 63-66: props.content.map(piece => normalize(piece) ?? '').join('')
joinContent(pieces) ==
    IF pieces = <<>> THEN <<>>
    ELSE LET n == normalizeNotificationContent(Head(pieces))
         IN  (IF n = Undefined THEN <<>> ELSE n.v) \o joinContent(Tail(pieces))

\* lines 52-77
normalizeNotificationContent(value) ==
    IF value.t = "string" THEN value
    ELSE IF value.t = "object" THEN Str(trim(joinContent(value.content)))
    ELSE IF value.t \in {"number", "boolean"} THEN Str(StringOf(value))
    ELSE Undefined

\* lines 95-96: normalizeNotificationContent(title) ?? String(title ?? '')
normalizedTitle(title) ==
    LET n == normalizeNotificationContent(title)
    IN  IF n # Undefined THEN n.v ELSE <<>>

\* the titles pages construct notifications with
Titles ==
    {Str(<<"a">>), Str(<<"5">>), Num(5), Props(<<Str(<<"a">>), Str(<<" ">>)>>), Undefined}

\* lines 107-114: the record of a new notification; its handlers are null and its
\* listener sets are empty
NewRecord(title) ==
    [title |-> title, onclick |-> Null, onclose |-> Null, onreply |-> Null,
     listeners |-> [click |-> <<>>, close |-> <<>>, reply |-> <<>>]]

\* a message sent for every notification whatever was sent before
shouldSendAlways(last, title, now) == TRUE

\* lines 117-120
shouldSend(last, title, now) ==
    \/ last = Null
    \/ last.title # title
    \/ now - last.time >= 1000

\* lines 46-50: the module state of the preload script, and what it has sent
InitRenderer ==
    /\ IdleBuild
    /\ call = NoCall
    /\ app = [running |-> TRUE,
              now |-> 0,
              rendererNotifications |-> <<>>,
              notificationCounter |-> 1,
              lastNotificationTime |-> 0,
              lastWebNotification |-> Null,
              constructed |-> <<>>,
              observed |-> <<>>,
              events |-> 0,
              logged |-> <<>>,
              sent |-> <<>>]

\* what is observed of the handlers of a notification: how often its onclose and
\* each of its close listeners ran, whether close was emitted for it, and whether a
\* handler of it ran after its record was removed
NotObserved == [onclose |-> 0, closeListeners |-> <<0, 0>>, closeEmitted |-> FALSE, late |-> FALSE]

\* lines 93-134: the constructor, on the state a
construct(a, title) ==
    LET id == a.notificationCounter
        t == normalizedTitle(title)
        send == shouldSend(a.lastWebNotification, t, a.now)
    IN  [a EXCEPT
           !.notificationCounter = id + 1,
           !.rendererNotifications = (id :> NewRecord(t)) @@ @,
           !.lastWebNotification = IF send THEN [title |-> t, time |-> a.now] ELSE @,
           !.lastNotificationTime = IF send THEN a.now ELSE @,
           !.constructed = Append(@, [id |-> id, raw |-> title, at |-> a.now]),
           !.observed = (id :> NotObserved) @@ @,
           !.sent = IF send
                    THEN Append(@, [channel |-> "notification", id |-> id, title |-> t])
                    ELSE @]

\* lines 93-134: new Notification(title, options)
NotificationConstructed(title) ==
    /\ app.notificationCounter <= MaxNotifications
    /\ app' = construct(app, title)
    /\ UNCHANGED <<buildVars, call>>

\* a page constructs a notification
Construct == \E title \in Titles : NotificationConstructed(title)

\* Date.now() moves on
Tick ==
    /\ app.now < MaxTicks * TickMs
    /\ app' = [app EXCEPT !.now = @ + TickMs]
    /\ UNCHANGED <<buildVars, call>>

NextDedup ==
    \/ Construct
    \/ Tick

SpecDedup == InitRenderer /\ [][NextDedup]_vars

\* a handler of a page that returns, and one that calls close() of its notification
Plain == [t |-> "function", does |-> "return"]
Closes == [t |-> "function", does |-> "close"]

EventNames == {"click", "close", "reply"}

\* lines 184-189: the handler property of the instance for an event
handlerOf(record, eventName) ==
    IF eventName = "click" THEN record.onclick
    ELSE IF eventName = "close" THEN record.onclose
    ELSE record.onreply

\* the handler of an event of notification id runs: which = 0 is the handler
\* property, which = i the i-th listener
Observe(a, id, eventName, which) ==
    [a EXCEPT !.observed[id] =
        [@ EXCEPT !.late = @ \/ id \notin DOMAIN a.rendererNotifications,
                  !.onclose = IF eventName = "close" /\ which = 0 THEN @ + 1 ELSE @,
                  !.closeListeners = IF eventName = "close" /\ which > 0
                                     THEN [@ EXCEPT ![which] = @ + 1]
                                     ELSE @]]

Returned(a) == [app |-> a, threw |-> FALSE]
Threw(a) == [app |-> a, threw |-> TRUE]

RECURSIVE emitNotificationEvent(_, _, _, _)
RECURSIVE closeNotification(_, _, _)
RECURSIVE invoke(_, _, _, _)
RECURSIVE runListeners(_, _, _, _, _, _)

\* the body of a handler of the page runs
invoke(a, id, handler, depth) ==
    IF handler.does = "close" THEN closeNotification(a, id, depth) ELSE Returned(a)

\* lines 136-139: close()
closeNotification(a, id, depth) ==
    IF depth > MaxStack THEN Threw(a)
    ELSE emitNotificationEvent(
             [a EXCEPT !.sent = Append(@, [channel |-> "notification-close", id |-> id,
                                           title |-> <<>>])],
             id, "close", depth + 1)

\* lines 192-198: the listeners of the record run in order; what one throws is
\* caught and logged
runListeners(a, id, eventName, listeners, i, depth) ==
    IF i > Len(listeners) THEN a
    ELSE LET r == invoke(Observe(a, id, eventName, i), id, listeners[i], depth)
         IN  runListeners(IF r.threw
                          THEN [r.app EXCEPT !.logged = Append(@, "Notification listener error")]
                          ELSE r.app,
                          id, eventName, listeners, i + 1, depth)

\* lines 167-203
emitNotificationEvent(a, id, eventName, depth) ==
    IF depth > MaxStack THEN Threw(a)
    ELSE IF id \notin DOMAIN a.rendererNotifications THEN Returned(a)
    ELSE LET record == a.rendererNotifications[id]
             a0 == IF eventName = "close"
                   THEN [a EXCEPT !.observed[id].closeEmitted = TRUE]
                   ELSE a
             handler == handlerOf(record, eventName)
             r1 == IF handler.t = "null" THEN Returned(a0)
                   ELSE invoke(Observe(a0, id, eventName, 0), id, handler, depth + 1)
         IN  IF r1.threw THEN r1
             ELSE LET a2 == runListeners(r1.app, id, eventName,
                                         record.listeners[eventName], 1, depth + 1)
                  IN  Returned(IF eventName = "close"
                               THEN [a2 EXCEPT !.rendererNotifications =
                                        [k \in DOMAIN @ \ {id} |-> @[k]]]
                               ELSE a2)

\* the handlers a page gives a notification right after constructing it
Wiring(onclick, onclose, click, close) ==
    [onclick |-> onclick, onclose |-> onclose, onreply |-> Plain,
     listeners |-> [click |-> click, close |-> close, reply |-> <<Plain>>]]

Wirings ==
    {Wiring(Null, Null, <<>>, <<>>),
     Wiring(Plain, Plain, <<Plain>>, <<Plain, Plain>>),
     Wiring(Closes, Plain, <<Plain>>, <<Plain>>),
     Wiring(Plain, Closes, <<>>, <<Plain>>),
     Wiring(Plain, Plain, <<>>, <<Closes, Plain>>)}

\* lines 81-84 and 141-145: onclick, onclose and onreply assigned, listeners added
wire(a, id, w) ==
    [a EXCEPT !.rendererNotifications[id] =
        [@ EXCEPT !.onclick = w.onclick, !.onclose = w.onclose, !.onreply = w.onreply,
                  !.listeners = w.listeners]]

\* a page constructs a notification and gives it its handlers, in one task
Notify ==
    /\ app.notificationCounter <= MaxNotifications
    /\ \E w \in Wirings :
          app' = wire(construct(app, Str(<<"a">>)), app.notificationCounter, w)
    /\ UNCHANGED <<buildVars, call>>

\* lines 136-139: the page calls close() of a notification it constructed
Close ==
    /\ app.events < MaxEvents
    /\ \E id \in 1..(app.notificationCounter - 1) :
          app' = [closeNotification(app, id, 1).app EXCEPT !.events = @ + 1]
    /\ UNCHANGED <<buildVars, call>>

\* lines 153-156: the page calls dispatchEvent of a notification it constructed
DispatchEvent ==
    /\ app.events < MaxEvents
    /\ \E id \in 1..(app.notificationCounter - 1), eventName \in EventNames :
          app' = [emitNotificationEvent(app, id, eventName, 1).app EXCEPT !.events = @ + 1]
    /\ UNCHANGED <<buildVars, call>>

\* lines 218-225: a 'notification-event' message of the main process arrives
NotificationEvent ==
    /\ app.events < MaxEvents
    /\ \E id \in 1..MaxNotifications, eventName \in EventNames :
          app' = [emitNotificationEvent(app, id, eventName, 1).app EXCEPT !.events = @ + 1]
    /\ UNCHANGED <<buildVars, call>>

NextEvents ==
    \/ Notify
    \/ Close
    \/ DispatchEvent
    \/ NotificationEvent

SpecEvents == InitRenderer /\ [][NextEvents]_vars

\* mainWindow.ts lines 309-313 and 332-336: the object payload of a 'notification'
\* message, and the payload {id} of a 'notification-close' message
NotificationPayload(id, title) == [t |-> "object", id |-> id, title |-> title]
ClosePayload(id) == [t |-> "object", id |-> id]

\* the first arguments 'notification' messages arrive with
NotificationPayloads ==
    {Str(<<"a">>),
     NotificationPayload(Num(1), Str(<<"a">>)),
     NotificationPayload(Num(2), Str(<<"a">>)),
     NotificationPayload(Str(<<"1">>), Str(<<"a">>)),
     NotificationPayload(Undefined, Str(<<"a">>)),
     NotificationPayload(Num(1), Undefined)}

\* the arguments 'notification-close' messages arrive with
ClosePayloads ==
    {Num(1), ClosePayload(Num(1)), ClosePayload(Num(2)), ClosePayload(Num(3)),
     ClosePayload(Str(<<"1">>)), Str(<<"1">>), Undefined}

\* mainWindow.ts lines 315-345
normalizeRendererNotificationPayload(rawPayload) ==
    IF rawPayload.t = "string" THEN [id |-> Undefined, title |-> rawPayload.v]
    ELSE IF rawPayload.t = "object" /\ rawPayload.title.t = "string"
    THEN [id |-> rawPayload.id, title |-> rawPayload.title.v]
    ELSE Null

\* mainWindow.ts lines 347-360
extractNotificationId(payload) ==
    IF payload.t = "number" THEN payload
    ELSE IF payload.t = "object" /\ payload.id.t = "number" THEN payload.id
    ELSE Undefined

\* the id a 'notification-close' payload names, numeric or not
requestedId(payload) ==
    IF payload.t = "number" THEN payload
    ELSE IF payload.t = "object" THEN payload.id
    ELSE Undefined

\* the hosts of the running app: native notifications are shown where the platform
\* is not macOS and Notification.isSupported() (line 285)
MainHosts == {"native", "unsupported", "darwin"}

\* what the try block of lines 369-410 can do
ShowOutcomes == {"shown", "constructorThrows", "showThrows"}

\* line 40 and the state the handlers of lines 247-307 act on: natives are the
\* Notification objects constructed so far; lastClose and lastRemoved record what
\* the last 'notification-close' message and the last close event did
InitMain ==
    /\ IdleBuild
    /\ call = NoCall
    /\ \E h \in MainHosts :
          app = [running |-> TRUE,
                 host |-> h,
                 activeNativeNotifications |-> <<>>,
                 natives |-> <<>>,
                 badge |-> FALSE,
                 events |-> 0,
                 logged |-> <<>>,
                 toRenderer |-> <<>>,
                 lastClose |-> [id |-> Undefined, live |-> {}, dismissed |-> 0],
                 lastRemoved |-> [closed |-> 0, entry |-> 0]]

\* the native notifications registered for id that have not emitted 'close'
LiveFor(a, id) ==
    {k \in 1..Len(a.natives) : a.natives[k].id = id /\ ~a.natives[k].closed}

\* mainWindow.ts lines 362-411, on the state a
showNativeNotification(a, rendererNotificationId, outcome) ==
    IF outcome = "constructorThrows"
    THEN [a EXCEPT !.logged = Append(@, "Failed to show notification:")]
    ELSE LET k == Len(a.natives) + 1
             numeric == rendererNotificationId.t = "number"
         IN  [a EXCEPT
                !.natives = Append(@, [id |-> rendererNotificationId,
                                       shown |-> outcome = "shown",
                                       dismissed |-> FALSE,
                                       closed |-> FALSE]),
                !.activeNativeNotifications =
                    IF numeric THEN (rendererNotificationId.v :> k) @@ @ ELSE @,
                !.logged = IF outcome = "showThrows"
                           THEN Append(@, "Failed to show notification:")
                           ELSE @]

\* mainWindow.ts lines 267-301: a 'notification' message arrives
NotificationMessage ==
    /\ app.events < MaxEvents
    /\ \E rawPayload \in NotificationPayloads, outcome \in ShowOutcomes, focused \in BOOLEAN :
          LET normalized == normalizeRendererNotificationPayload(rawPayload)
              a == [app EXCEPT !.events = @ + 1]
          IN  app' = IF normalized = Null
                     THEN [a EXCEPT !.logged =
                              Append(@, "Ignoring invalid notification payload")]
                     ELSE IF a.host = "native"
                     THEN showNativeNotification(a, normalized.id, outcome)
                     ELSE IF a.host = "darwin" /\ ~focused
                     THEN [a EXCEPT !.badge = TRUE]
                     ELSE a
    /\ UNCHANGED <<buildVars, call>>

\* mainWindow.ts lines 258-265: a 'notification-close' message arrives
NotificationCloseMessage ==
    /\ app.events < MaxEvents
    /\ \E payload \in ClosePayloads :
          LET id == extractNotificationId(payload)
              a == [app EXCEPT !.events = @ + 1]
              known == id # Undefined /\ id.v \in DOMAIN a.activeNativeNotifications
              k == IF known THEN a.activeNativeNotifications[id.v] ELSE 0
          IN  app' = [a EXCEPT
                        !.natives = IF known THEN [@ EXCEPT ![k].dismissed = TRUE] ELSE @,
                        !.lastClose = [id |-> requestedId(payload),
                                       live |-> LiveFor(a, requestedId(payload)),
                                       dismissed |-> k]]
    /\ UNCHANGED <<buildVars, call>>

\* mainWindow.ts lines 394-399: a native notification emits 'close'
NativeClose ==
    /\ \E k \in 1..Len(app.natives) :
          LET N == app.natives[k]
              numeric == N.id.t = "number"
              entry == IF numeric /\ N.id.v \in DOMAIN app.activeNativeNotifications
                       THEN app.activeNativeNotifications[N.id.v]
                       ELSE 0
          IN  /\ N.shown
              /\ ~N.closed
              /\ app' = [app EXCEPT
                           !.natives[k].closed = TRUE,
                           !.activeNativeNotifications =
                               IF numeric THEN [i \in DOMAIN @ \ {N.id.v} |-> @[i]] ELSE @,
                           !.toRenderer =
                               IF numeric
                               THEN Append(@, [channel |-> "notification-event",
                                               id |-> N.id.v, event |-> "close"])
                               ELSE @,
                           !.lastRemoved = [closed |-> k, entry |-> entry]]
    /\ UNCHANGED <<buildVars, call>>

NextMain ==
    \/ NotificationMessage
    \/ NotificationCloseMessage
    \/ NativeClose

SpecMain == InitMain /\ [][NextMain]_vars

-----------------------------------------------------------------------------
(* Properties *)

\* the operation names in ops
OpNames == {ops[i].op : i \in 1..Len(ops)}

HasOp(o) == \E i \in 1..Len(ops) : ops[i] = o

HasWarn(msg) == \E i \in 1..Len(warns) : warns[i].msg = msg

\* the request asks to upgrade the prior install, overwriting it, and names no output
OverwriteUpgradeNoOut ==
    /\ request.upgrade = Str(PriorRoot)
    /\ Truthy(request.overwrite)
    /\ request.out = Undefined

\* C1: an upgrade build of a prior install found at the upgrade path, with overwrite
\* requested and no output directory in the request, works in a fresh temporary
\* directory, relocates the build onto the prior install's root and returns that root.
C1_UpgradeReturnsPriorRoot ==
    (pc = "done" /\ OverwriteUpgradeNoOut) =>
        /\ result = PriorRoot
        /\ HasOp(Op("getTempDir", getTempDir("appUpgrade", 1), NoPath))
        /\ options.packager.out = Str(getTempDir("appUpgrade", 1))
        /\ \E i \in 1..Len(ops) : ops[i].op = "copy" /\ Under(PriorRoot, ops[i].b)

\* the prior install is on disk as it was before the build
PriorInstallIntact ==
    \A q \in DOMAIN PriorTree(request.platform) :
        q \in DOMAIN fs /\ fs[q] = PriorTree(request.platform)[q]

\* C2: an overwrite-upgrade whose relocation fails leaves the prior install at the
\* destination with the content it had before the build started.
C2_FailedRelocationKeepsPriorInstall ==
    (/\ pc = "failed"
     /\ error.at \in {"relocateCopy", "removeTemp"}
     /\ finalOutDirectory = PriorRoot) => PriorInstallIntact

\* the build got past option resolution with a macOS bundle as its target
ResolvedDarwin == options # NoOptions /\ options.packager.platform = "darwin"

\* nothing of staging or packaging has happened
NothingStaged ==
    /\ tmpPath = NoPath
    /\ OpNames \cap {"prepareElectronApp", "electronPackager"} = {}
    /\ \A q \in DOMAIN fs : Len(q) = 2 /\ q[1] = <<"tmp">> => q[2][1] # "app"

\* C3 as stated: with a macOS bundle as the target on any host that is not macOS and
\* holds no administrator rights, the build fails with the insufficient-privileges
\* error before staging and packaging.
C3_GuardOnEveryNonMacHost ==
    (ResolvedDarwin /\ host.os # "darwin" /\ ~host.admin) =>
        /\ pc = "failed"
        /\ error = Err("InsufficientPrivileges", "getOptions")
        /\ NothingStaged

\* C3 as amended: with a macOS bundle as the target on a Windows host, the build fails
\* with the insufficient-privileges error, before staging and packaging, exactly when
\* the host process holds no administrator rights; on no other host does it fail so.
C3_GuardOnWindowsHost ==
    /\ (ResolvedDarwin /\ host.os = "win32" /\ ~host.admin) =>
          /\ pc = "failed"
          /\ error = Err("InsufficientPrivileges", "getOptions")
          /\ NothingStaged
    /\ error.kind = "InsufficientPrivileges" =>
          ResolvedDarwin /\ host.os = "win32" /\ ~host.admin

C3_Witness ==
    /\ pc = "failed"
    /\ error.kind = "InsufficientPrivileges"
    /\ ResolvedDarwin
    /\ host.os = "win32"

TrimCalled == call.fn = "trimUnprocessableOptions" /\ call.done

\* the trigger of the constraint filter
TrimTriggered ==
    /\ call.in.packager.platform = "win32"
    /\ call.host.os # "win32"
    /\ ~call.host.wine

\* the fields of the list set in the configuration handed to the packaging engine
FieldsSet(opts) ==
    {key \in OPTIONS_REQUIRING_WINDOWS_FOR_WINDOWS_BUILD : opts.packager[key] # Undefined}

\* C4: targeting win32 on a host that is not Windows and has no Wine, every field of
\* the list that is set in the engine's configuration is unset afterwards, and one
\* warning names exactly the fields cleared.
C4_TrimClearsWindowsOnlyFields ==
    (TrimCalled /\ TrimTriggered) =>
        /\ FieldsSet(call.out.options) = {}
        /\ FieldsSet(call.in) # {} =>
              /\ Len(call.out.warns) = 1
              /\ call.out.warns[1].fields = FieldsSet(call.in)

\* C5: the constraint filter changes nothing and logs nothing when the target is not
\* win32, or the host is Windows, or Wine is available, or no field of the list is set.
C5_TrimLeavesOptionsAlone ==
    (TrimCalled /\ (~TrimTriggered \/ FieldsSet(call.in) = {})) =>
        /\ call.out.options = call.in
        /\ call.out.warns = <<>>

C5_Witness ==
    /\ TrimCalled
    /\ call.in.packager.platform = "win32"
    /\ call.host.os = "linux"
    /\ call.host.wine
    /\ "icon" \in FieldsSet(call.in)
    /\ call.out.options = call.in

GetAppPathCalled == call.fn = "getAppPath" /\ call.done

\* C9: getAppPath gives no path for an empty list, the element of a one-element list
\* without a warning, the first element of a longer list with exactly one warning,
\* and a plain string unchanged.
C9_GetAppPathNormalises ==
    GetAppPathCalled =>
        IF call.in.t = "array"
        THEN /\ Len(call.in.v) = 0 => call.out.value = Undefined /\ call.out.warns = <<>>
             /\ Len(call.in.v) = 1 =>
                   call.out.value = Str(call.in.v[1]) /\ call.out.warns = <<>>
             /\ Len(call.in.v) >= 2 =>
                   call.out.value = Str(call.in.v[1]) /\ Len(call.out.warns) = 1
        ELSE call.out.value = call.in /\ call.out.warns = <<>>

C9_Witness ==
    /\ GetAppPathCalled
    /\ call.in.t = "array"
    /\ Len(call.in.v) >= 2
    /\ call.in.v[1] # call.in.v[2]
    /\ call.out.value = Str(call.in.v[1])
    /\ Len(call.out.warns) = 1

LinuxPcs == {"launcherReaddir", "launcherWrite", "launcherChmod", "installImport",
             "installRemove", "installCopy", "installEnsureDir", "installWrite",
             "installChmod"}

LauncherFailed == HasWarn("Failed to create desktop launcher")
InstallFailed == HasWarn("Failed to install app to /opt")

\* a step of desktop-entry generation or of the system install leads to a further
\* step of the two or to the return of the final path, raises no error, and logs a
\* launcher or an install it leaves unfinished
LinuxStepContained ==
    pc \in LinuxPcs =>
        /\ pc' \in LinuxPcs \cup {"done"}
        /\ error' = NoError
        /\ (pc' = "done" => result' = appPath /\ result' # NoPath)
        /\ (pc' = "installImport" /\ pc # "launcherChmod" => LauncherFailed')
        /\ (pc' = "done" /\ pc # "installChmod" => InstallFailed')

FreshBuild == ~Truthy(request.upgrade)

\* a Linux build has returned with its desktop entry generated
FreshLinuxBuilt ==
    /\ pc = "done"
    /\ FreshBuild
    /\ options.packager.platform = "linux"
    /\ "chmod" \in OpNames
    /\ ~LauncherFailed

\* C7 as stated: a fresh Linux build returns a path under the output directory and
\* leaves the desktop entry in the directory that contains the build directory.
C7_DesktopEntryBesideBuild ==
    FreshLinuxBuilt =>
        /\ Under(options.packager.out.v, result)
        /\ Exists(fs, Join(Dirname(result), desktopFileName(appName)))

\* C7 as amended: a fresh Linux build returns a path strictly under the output
\* directory and leaves the desktop entry inside the build directory it returns, none
\* in the directory that contains the build directory.
C7_DesktopEntryInsideBuild ==
    FreshLinuxBuilt =>
        /\ Under(options.packager.out.v, result)
        /\ result # options.packager.out.v
        /\ Exists(fs, Join(result, desktopFileName(appName)))
        /\ fs[Join(result, desktopFileName(appName))].kind = "file"
        /\ ~Exists(fs, Join(Dirname(result), desktopFileName(appName)))

C7_Witness ==
    /\ FreshLinuxBuilt
    /\ request.out = Str(SomeOut)
    /\ request.name = Str(<<"F", "o", "o">>)
    /\ Under(SomeOut, result)
    /\ Exists(fs, Join(result, <<"F", "o", "o", ".desktop">>))

\* the names of the model with every whitespace character removed
Stripped(n) ==
    IF n = <<"M", "y", " ", "A", "\t", "p">> THEN <<"M", "y", "A", "p">> ELSE n

\* desktop-entry generation has just finished without a failure
LauncherDone == pc = "installImport" /\ ~LauncherFailed

\* the desktop entry of the build, where generation writes it
LauncherFile == Join(appPath, appName \o <<".desktop">>)

\* C8: the desktop entry generated for name N and URL U holds Name=N, Comment=App for U,
\* Exec=<executable path> %U, Icon=<build dir>/resources/app/icon.png,
\* StartupNotify=true and StartupWMClass=N without whitespace; once generation is done
\* the file is executable (0755), its mode set after its content was written.
C8_DesktopEntryContent ==
    /\ (pc \in {"launcherChmod"} \/ LauncherDone) =>
          /\ Exists(fs, LauncherFile)
          /\ LET c == fs[LauncherFile].content
             IN  /\ c.Name = appName
                 /\ c.Comment = <<"App for ">> \o options.packager.targetUrl.v
                 /\ c.ExecPath = Append(appPath, appName)
                 /\ c.ExecArgs = <<"%U">>
                 /\ c.Icon = appPath \o << <<"resources">>, <<"app">>, <<"icon", ".png">> >>
                 /\ c.StartupNotify = <<"true">>
                 /\ c.StartupWMClass = Stripped(appName)
                 /\ \A i \in 1..Len(c.StartupWMClass) : c.StartupWMClass[i] \notin Whitespace
    /\ LauncherDone =>
          /\ fs[LauncherFile].mode = 493
          /\ \E i, j \in 1..Len(ops) :
                /\ i < j
                /\ ops[i] = Op("writeFile", LauncherFile, NoPath)
                /\ ops[j] = Op("chmod", LauncherFile, NoPath)

C8_Witness ==
    /\ LauncherDone
    /\ appName = <<"M", "y", " ", "A", "\t", "p">>
    /\ fs[LauncherFile].content.StartupWMClass = <<"M", "y", "A", "p">>
    /\ fs[LauncherFile].mode = 493

\* C10: when the packaging engine returns no path, the build fails at that point with
\* the path-undetermined error and nothing later happens: no relocation, no deletion,
\* no desktop entry, no system install, no result.
C10_EmptyResultFailsAfterPackaging ==
    appPathArray = Arr(<<>>) =>
        /\ pc = "failed"
        /\ error = Err("App Path could not be determined", "electronPackager")
        /\ result = NoPath
        /\ appPath = NoPath
        /\ ops[Len(ops)].op = "electronPackager"
        /\ OpNames \cap {"remove", "readdir", "writeFile", "chmod", "import",
                         "sudo rm", "sudo cp", "sudo chown", "ensureDir"} = {}
        /\ PriorInstallIntact
        /\ Exists(fs, tmpPath)

C10_Witness ==
    /\ appPathArray = Arr(<<>>)
    /\ pc = "failed"
    /\ isOverwriteUpgrade(options)
    /\ options.packager.platform = "linux"

IsUpgradeCalled == call.fn = "isUpgrade" /\ call.done

\* the upgrade field of a request is a non-empty string
UpgradePathGiven(r) == IsString(r.upgrade) /\ r.upgrade.v # <<>>

\* C11: for a request whose upgrade field is absent, an empty string, or not a
\* string, isUpgrade returns false and leaves every field of the request as it was.
C11_NoUpgradeIsNoOp ==
    (IsUpgradeCalled /\ ~UpgradePathGiven(call.in)) =>
        /\ call.out.ret = FALSE
        /\ \A key \in DOMAIN call.in : call.out.raw[key] = call.in[key]
        /\ DOMAIN call.out.raw = DOMAIN call.in

C11_Witness ==
    /\ IsUpgradeCalled
    /\ call.in.upgrade = Bool(TRUE)
    /\ call.in.upgradeFrom = Str(SomeOut)
    /\ call.out.ret = FALSE
    /\ call.out.raw.upgradeFrom = Str(SomeOut)

\* C12: for a request whose upgrade field is a non-empty string P, isUpgrade sets
\* upgradeFrom to P and upgrade to the boolean true, changes no other field, and
\* returns true.
C12_UpgradeIsNormalised ==
    (IsUpgradeCalled /\ UpgradePathGiven(call.in)) =>
        /\ call.out.ret = TRUE
        /\ call.out.raw.upgradeFrom = call.in.upgrade
        /\ call.out.raw.upgrade = Bool(TRUE)
        /\ \A key \in DOMAIN call.in \ {"upgrade", "upgradeFrom"} :
              call.out.raw[key] = call.in[key]
        /\ DOMAIN call.out.raw = DOMAIN call.in

C12_Witness ==
    /\ IsUpgradeCalled
    /\ call.in.upgrade = Str(EmptyDir)
    /\ call.in.upgradeFrom = Str(SomeOut)
    /\ call.in.out = Str(SomeOut)
    /\ call.out.ret
    /\ call.out.raw.upgradeFrom = Str(EmptyDir)
    /\ call.out.raw.upgrade = Bool(TRUE)
    /\ call.out.raw.out = Str(SomeOut)

\* the request asks to upgrade from a path where no prior install is
UpgradeOfMissingInstall ==
    /\ UpgradePathGiven(request)
    /\ ~findUpgradeApp(InitialFs(request.platform), request.upgrade.v).found

\* C13: an upgrade request whose upgrade path holds no prior install fails with the
\* upgrade-not-found error before options are resolved: the options resolver, the
\* stager and the packaging engine are never called and no temporary directory is made.
C13_UpgradeNotFoundBeforeResolution ==
    (UpgradeOfMissingInstall /\ pc # "start") =>
        /\ pc = "failed"
        /\ error = Err("UpgradeNotFound", "start")
        /\ ops = <<>>
        /\ options = NoOptions
        /\ tmpCount = 0
        /\ tmpPath = NoPath
        /\ \A q \in DOMAIN fs : ~Under(TmpRoot, q)
        /\ result = NoPath

C13_Witness ==
    /\ pc = "failed"
    /\ error.kind = "UpgradeNotFound"
    /\ request.upgrade = Str(EmptyDir)
    /\ Truthy(request.overwrite)
    /\ rawOptions.upgradeFrom = Str(EmptyDir)

CopyIconsCalled == call.fn = "copyIconsIfNecessary" /\ call.done

\* the icon the configuration names, and whether it names one
ConfiguredIcon == call.in.packager.icon.v
IconConfigured == IsString(call.in.packager.icon) /\ call.in.packager.icon.v # NoPath

MacFamily == call.in.packager.platform \in {"darwin", "mas"}

\* the tray icon beside the configured icon, and the icon.png of the staged app
TrayIconBeside == SubSeq(ConfiguredIcon, 1, Len(ConfiguredIcon) - 1) \o << <<"tray-icon", ".png">> >>
StagedIconPng == call.staged \o << <<"icon", ".png">> >>

\* for the macOS bundle family: the one copy with tray mode not disabled, none with it
\* disabled
MacTrayCopy ==
    IF call.in.nativefier.tray # "false"
    THEN /\ call.out.copy
         /\ call.out.src = TrayIconBeside
         /\ call.out.dst = StagedIconPng
    ELSE ~call.out.copy

\* C14 as stated: for darwin or mas with an icon configured at <dir>/<file>, exactly
\* one copy is made when tray mode is not disabled, from <dir>/tray-icon.png to
\* <stagedPath>/icon.png, none when tray mode is 'false', and the configured icon file
\* is never the file copied.
C14_MacCopiesOnlyTrayIcon ==
    (CopyIconsCalled /\ MacFamily /\ IconConfigured) =>
        /\ MacTrayCopy
        /\ call.out.copy => call.out.src # ConfiguredIcon

\* C14 as amended: as above, and the configured icon file is the file copied only
\* when it is itself <dir>/tray-icon.png.
C14_MacCopiesTrayIconBesideIcon ==
    (CopyIconsCalled /\ MacFamily /\ IconConfigured) =>
        /\ MacTrayCopy
        /\ call.out.copy =>
              (call.out.src = ConfiguredIcon <=>
                  ConfiguredIcon[Len(ConfiguredIcon)] = <<"tray-icon", ".png">>)

C14_Witness ==
    /\ CopyIconsCalled
    /\ call.in.packager.platform = "mas"
    /\ call.in.nativefier.tray = "start-in-tray"
    /\ IconConfigured
    /\ ConfiguredIcon = << <<"x">>, <<"icon", ".icns">> >>
    /\ call.out.copy
    /\ call.out.src = << <<"x">>, <<"tray-icon", ".png">> >>
    /\ call.out.dst = call.staged \o << <<"icon", ".png">> >>

\* the extension of each icon of the input set, as path.extname gives it
ExpectedExt(icon) ==
    CASE icon = IconPath -> <<".png">>
      [] icon = << <<"x">>, <<"icon", ".icns">> >> -> <<".icns">>
      [] icon = << <<"y">>, <<"z">>, <<"logo", ".ico">> >> -> <<".ico">>
      [] icon = << <<"y">>, <<"logo", ".tar", ".png">> >> -> <<".png">>
      [] icon = << <<"y">>, <<"logo">> >> -> <<>>
      [] icon = << <<"y">>, <<".icns">> >> -> <<>>
      [] icon = TrayIconPath -> <<".png">>

\* C15: for a win32 or linux target the configured icon file is copied to
\* <stagedPath>/icon<ext>, <ext> the icon's own extension, whatever the tray mode; and
\* for every target no copy is made when no icon is configured.
C15_IconCopiedWithItsExtension ==
    CopyIconsCalled =>
        /\ (IconConfigured /\ ~MacFamily) =>
              /\ call.out.copy
              /\ call.out.src = ConfiguredIcon
              /\ call.out.dst = call.staged \o << <<"icon">> \o ExpectedExt(ConfiguredIcon) >>
        /\ ~IconConfigured => ~call.out.copy

C15_Witness ==
    /\ CopyIconsCalled
    /\ call.in.packager.platform = "linux"
    /\ call.in.nativefier.tray = "false"
    /\ IconConfigured
    /\ ConfiguredIcon = << <<"y">>, <<"z">>, <<"logo", ".ico">> >>
    /\ call.out.copy
    /\ call.out.dst = call.staged \o << <<"icon", ".ico">> >>

\* the positions in ops of the calls named o
Idx(o) == {i \in 1..Len(ops) : ops[i].op = o}

\* every call named a was made before every call named b
Before(a, b) == \A i \in Idx(a), j \in Idx(b) : i < j

LastOp == ops[Len(ops)]

\* nothing of packaging or after it has happened: the engine was not called, no
\* build tree is on disk, no path is held or returned
NothingPackaged ==
    /\ Idx("electronPackager") = {}
    /\ appPathArray = Undefined
    /\ appPath = NoPath
    /\ result = NoPath
    /\ \A q \in DOMAIN fs : fs[q].tag # "new"

\* a copy of an icon into the staged app was started, and it is over without an error
IconCopyOver(i) ==
    /\ ops[i].op = "copy"
    /\ ops[i].b \in {Join(tmpPath, <<"icon">> \o e) : e \in {<<>>} \cup {<<x>> : x \in Exts}}
    /\ pc # "copyIcons"
    /\ thrown.at # "copyIcons"

\* C16: an icon copy that fails, as it does when the icon or the tray icon to copy is
\* missing, is fatal: the build rejects with that I/O error as raised, the packaging
\* engine is never called and no path is returned.
C16_IconCopyFailureIsFatal ==
    /\ thrown.at = "copyIcons" =>
          /\ pc = "failed"
          /\ error = thrown
          /\ error.kind = "IOError"
          /\ LastOp.op = "copy"
          /\ NothingPackaged
    /\ \A i \in 1..Len(ops) : IconCopyOver(i) =>
          Exists(fs, ops[i].a) /\ Exists(fs, ops[i].b)

C16_Witness ==
    /\ pc = "failed"
    /\ error = Err("IOError", "copyIcons")
    /\ options.packager.platform = "darwin"
    /\ LastOp = Op("copy", TrayIconPath, Join(tmpPath, <<"icon", ".png">>))
    /\ ~Exists(fs, TrayIconPath)
    /\ Exists(fs, tmpPath)

PrePackagingPcs == {"start", "getOptions", "prepareElectronApp", "copyIcons"}

\* the stage an error of the given kind was raised at stopped the build there: the
\* last call made is that stage's and the later stages left no trace
StoppedAtStage ==
    CASE thrown.at = "start" ->
            /\ thrown.kind = "UpgradeNotFound"
            /\ ops = <<>>
            /\ options = NoOptions
      [] thrown.at = "getOptions" ->
            /\ thrown.kind \in {"ValidationError", "InsufficientPrivileges"}
            /\ LastOp.op = "getOptions"
            /\ tmpPath = NoPath
            /\ thrown.kind = "ValidationError" => options = NoOptions
      [] thrown.at = "prepareElectronApp" ->
            /\ thrown.kind \in {"IOError", "IconConversionError"}
            /\ thrown.kind = "IOError" =>
                  LastOp.op = "prepareElectronApp" /\ fs[tmpPath].tag = "temp"
            /\ thrown.kind = "IconConversionError" =>
                  LastOp.op = "convertIconIfNecessary" /\ fs[tmpPath].tag = "staged"
            /\ Idx("copy") = {}
      [] thrown.at = "copyIcons" ->
            /\ thrown.kind = "IOError"
            /\ LastOp.op = "copy"
            /\ Idx("trimUnprocessableOptions") = {}

\* C17: when a stage before the call of the packaging engine fails (upgrade not
\* found, option validation, platform guard, staging, icon conversion, icon copy), the
\* build fails with that error at that stage, no later stage runs, the engine is never
\* called and no artifact is produced or returned.
C17_FailFastBeforePackaging ==
    thrown.at \in PrePackagingPcs =>
        /\ pc = "failed"
        /\ error = thrown
        /\ StoppedAtStage
        /\ NothingPackaged
        /\ PriorInstallIntact

C17_Witness ==
    /\ pc = "failed"
    /\ error = Err("IconConversionError", "prepareElectronApp")
    /\ request.upgrade = Str(PriorRoot)
    /\ Truthy(request.overwrite)
    /\ Exists(fs, tmpPath)

\* C18: an error the packaging engine raises is the error the build rejects with, as
\* raised, and nothing of finalization runs after it: no relocation, no deletion of
\* the build output, no desktop entry and no system install.
C18_EngineErrorPropagates ==
    (thrown.at = "electronPackager" /\ thrown.kind \in EngineErrors) =>
        /\ pc = "failed"
        /\ error = thrown
        /\ LastOp.op = "electronPackager"
        /\ Idx("electronPackager") = {Len(ops)}
        /\ OpNames \cap {"remove", "readdir", "writeFile", "chmod", "import",
                         "sudo rm", "sudo cp", "sudo chown", "ensureDir"} = {}
        /\ result = NoPath
        /\ appPath = NoPath
        /\ PriorInstallIntact
        /\ Exists(fs, tmpPath)

C18_Witness ==
    /\ pc = "failed"
    /\ error = Err("ENOSPC", "electronPackager")
    /\ isOverwriteUpgrade(options)
    /\ options.packager.platform = "linux"
    /\ thrown = error

\* C19: when the packaging engine is invoked, the directory of its configuration is
\* the staging directory created for this build, not the template directory, and
\* staging, icon conversion, icon copy and constraint filtering are over, in that
\* order; the engine is invoked once.
C19_EngineRunsOnStagedDir ==
    /\ Cardinality(Idx("electronPackager")) <= 1
    /\ pc = "electronPackager" =>
          /\ options.packager.dir = Str(tmpPath)
          /\ LastOp = Op("electronPackager", tmpPath, NoPath)
          /\ tmpPath = getTempDir("app", tmpCount)
          /\ tmpPath # TemplateDir
          /\ ~Exists(InitialFs(request.platform), tmpPath)
          /\ fs[tmpPath].tag = "staged"
          /\ Idx("getTempDir") # {} /\ ops[Len(ops) - 1].op = "trimUnprocessableOptions"
          /\ Cardinality(Idx("prepareElectronApp")) = 1
          /\ Cardinality(Idx("convertIconIfNecessary")) = 1
          /\ Cardinality(Idx("trimUnprocessableOptions")) = 1
          /\ Cardinality(Idx("copy")) <= 1
          /\ Before("getTempDir", "prepareElectronApp")
          /\ Before("prepareElectronApp", "convertIconIfNecessary")
          /\ Before("convertIconIfNecessary", "copy")
          /\ Before("convertIconIfNecessary", "trimUnprocessableOptions")
          /\ Before("copy", "trimUnprocessableOptions")
          /\ Before("trimUnprocessableOptions", "electronPackager")
          /\ \A i \in Idx("copy") : Exists(fs, ops[i].b)

C19_Witness ==
    /\ pc = "electronPackager"
    /\ options.packager.dir = Str(getTempDir("app", 1))
    /\ options.packager.icon = Str(ConvertedIconPath)
    /\ Idx("copy") # {}
    /\ Exists(fs, Join(tmpPath, <<"icon", ".icns">>))

\* the path the packaging engine's result normalises to
EnginePath == pathOf(getAppPath(appPathArray).value)

\* the build copied the engine's output onto the final output directory
Relocated ==
    \E i \in Idx("copy") :
        /\ ops[i].a = relocateSrc(EnginePath, options)
        /\ ops[i].b = relocateDst(finalOutDirectory, options)

\* C20: a build relocates exactly when upgrade, upgradeFrom and overwrite are all set
\* in the resolved configuration; when it relocates, the destination is the root of
\* the prior install and is the path returned; when it does not, the path returned is
\* the engine's normalised result path.
C20_RelocationOntoPriorRoot ==
    pc = "done" =>
        /\ Relocated <=> isOverwriteUpgrade(options)
        /\ Relocated =>
              /\ finalOutDirectory = findUpgradeApp(InitialFs(request.platform),
                                                    options.packager.upgradeFrom.v).appRoot
              /\ result = finalOutDirectory
        /\ ~Relocated => result = EnginePath

\* the build is an overwrite-upgrade of a darwin app that got a path from the engine
DarwinRelocation ==
    /\ appPath # NoPath
    /\ isOverwriteUpgrade(options)
    /\ options.packager.platform = "darwin"

\* the three operations of the macOS relocation
FrameworksDelete == Op("remove", finalOutDirectory \o << bundleName(options), <<"Contents">>,
                                                        <<"Frameworks">> >>, NoPath)
BundleCopy == Op("copy", EnginePath \o <<bundleName(options)>>,
                 finalOutDirectory \o <<bundleName(options)>>)
OutputDelete == Op("remove", EnginePath, NoPath)

PreDeleteLogged == HasWarn("error when attempting to pre-delete old frameworks")

\* every node of the tree at src is at dst as it is at src
CopiedOver(src, dst) ==
    \A q \in Tree(fs, src) :
        /\ Exists(fs, Reroot(src, dst, q))
        /\ fs[Reroot(src, dst, q)] = fs[q]

\* C21: the macOS upgrade relocation deletes the destination bundle's
\* Contents/Frameworks, then copies the new .app bundle over the destination bundle,
\* overwriting, then deletes the build output; a failed frameworks delete is logged and
\* the copy still starts; the copy starts only when the delete attempt is over.
C21_MacRelocationOrder ==
    DarwinRelocation =>
        /\ Cardinality(Idx("remove")) >= 1
        /\ \A i \in Idx("remove") :
              \/ ops[i] = FrameworksDelete
              \/ ops[i] = OutputDelete
        /\ pc = "removeFrameworks" =>
              /\ LastOp = FrameworksDelete
              /\ \A i \in Idx("copy") : ops[i] # BundleCopy
              /\ ~PreDeleteLogged
        /\ pc = "relocateCopy" =>
              /\ ops[Len(ops) - 1] = FrameworksDelete
              /\ LastOp = BundleCopy
              /\ PreDeleteLogged \/ ~Exists(fs, FrameworksDelete.a)
        /\ pc = "removeTemp" =>
              /\ ops[Len(ops) - 2] = FrameworksDelete
              /\ ops[Len(ops) - 1] = BundleCopy
              /\ LastOp = OutputDelete
              /\ CopiedOver(BundleCopy.a, BundleCopy.b)
        /\ PreDeleteLogged => \E i \in Idx("copy") : ops[i] = BundleCopy
        /\ (pc \in LinuxPcs \cup {"done"}) =>
              /\ \E i \in 1..Len(ops) - 2 :
                    /\ ops[i] = FrameworksDelete
                    /\ ops[i + 1] = BundleCopy
                    /\ ops[i + 2] = OutputDelete
              /\ ~Exists(fs, EnginePath)
              /\ result = finalOutDirectory

C21_Witness ==
    /\ DarwinRelocation
    /\ pc = "done"
    /\ PreDeleteLogged
    /\ finalOutDirectory = PriorRoot
    /\ Exists(fs, PriorRoot \o << <<"O", "l", "d", "A", "p", "p", ".app">>, <<"Contents">>,
                                  <<"Frameworks">> >>)
    /\ fs[PriorRoot \o << <<"O", "l", "d", "A", "p", "p", ".app">> >>].tag = "new"
    /\ ~Exists(fs, EnginePath)

\* the build is an overwrite-upgrade of an app for another target than darwin
PlainRelocation ==
    /\ appPath # NoPath
    /\ isOverwriteUpgrade(options)
    /\ options.packager.platform # "darwin"

DirectoryCopy == Op("copy", EnginePath, finalOutDirectory)

\* a removal of a Contents/Frameworks directory was asked for
FrameworksDeleteIssued ==
    \E i \in Idx("remove") :
        /\ Len(ops[i].a) >= 2
        /\ ops[i].a[Len(ops[i].a)] = <<"Frameworks">>

\* C22: the upgrade relocation of a target other than darwin copies the whole build
\* directory over the destination and then deletes the build output; for the targets
\* mas, linux and win32 no frameworks pre-delete is ever made.
C22_PlainRelocationCopiesDirectory ==
    /\ options.packager.platform # "darwin" =>
          /\ pc # "removeFrameworks"
          /\ ~FrameworksDeleteIssued
          /\ ~PreDeleteLogged
    /\ PlainRelocation =>
          /\ pc = "relocateCopy" => LastOp = DirectoryCopy
          /\ pc = "removeTemp" =>
                /\ ops[Len(ops) - 1] = DirectoryCopy
                /\ LastOp = OutputDelete
                /\ CopiedOver(EnginePath, finalOutDirectory)
          /\ (pc \in LinuxPcs \cup {"done"}) =>
                /\ \E i \in 1..Len(ops) - 1 :
                      /\ ops[i] = DirectoryCopy
                      /\ ops[i + 1] = OutputDelete
                      /\ \A j \in Idx("copy") : ops[j] = DirectoryCopy => j = i
                /\ ~Exists(fs, EnginePath)
                /\ appPath = finalOutDirectory

C22_Witness ==
    /\ PlainRelocation
    /\ options.packager.platform = "mas"
    /\ pc = "done"
    /\ finalOutDirectory = PriorRoot
    /\ Exists(fs, Join(PriorRoot, <<"O", "l", "d", "A", "p", "p", ".app">>))
    /\ ~Exists(fs, EnginePath)
    /\ result = PriorRoot

\* the relocating copy rejected
RelocationCopyFailed == thrown.at = "relocateCopy"

\* C23: when the relocating copy fails the build fails with that error and the
\* engine's output stays on disk; the engine's output is deleted only after a copy that
\* completed; the staging directory is deleted on no path of the build.
C23_NoRollbackAfterPackaging ==
    /\ RelocationCopyFailed =>
          /\ pc = "failed"
          /\ error = thrown
          /\ error.kind = "IOError"
          /\ Exists(fs, EnginePath)
          /\ \A i \in Idx("remove") : ops[i] # OutputDelete
          /\ result = NoPath
    /\ (appPath # NoPath /\ isOverwriteUpgrade(options)) =>
          \A i \in Idx("remove") :
              ops[i] = OutputDelete =>
                  /\ i > 1
                  /\ ops[i - 1].op = "copy"
                  /\ ops[i - 1].a = relocateSrc(EnginePath, options)
                  /\ error.at # "relocateCopy"
    /\ pc = "removeTemp" => CopiedOver(relocateSrc(EnginePath, options),
                                       relocateDst(finalOutDirectory, options))
    /\ tmpPath # NoPath =>
          /\ IsDir(fs, tmpPath)
          /\ \A i \in Idx("remove") : ops[i].a # tmpPath

C23_Witness ==
    /\ RelocationCopyFailed
    /\ pc = "failed"
    /\ IsDir(fs, tmpPath)
    /\ IsDir(fs, EnginePath)
    /\ \E q \in Tree(fs, relocateSrc(EnginePath, options)) :
          ~Exists(fs, Reroot(relocateSrc(EnginePath, options),
                             relocateDst(finalOutDirectory, options), q))

\* the first act of each step of the Linux integration
LauncherRun == "readdir" \in OpNames
InstallRun == "import" \in OpNames

LinuxTarget == options.packager.platform = "linux"

\* the build got past the relocation
Finalized == pc \in LinuxPcs \cup {"done"}

LauncherGenerated ==
    /\ InstallRun
    /\ ~LauncherFailed

\* C25: the system install is attempted even when desktop-entry generation failed,
\* and a failed system install leaves the generated desktop entry where
\* generation wrote it, with the content and the mode generation gave it.
C25_IntegrationStepsIndependent ==
    /\ LauncherFailed => InstallRun
    /\ (LauncherFailed /\ pc = "done") =>
          \/ InstallFailed
          \/ Exists(fs, desktopFileDest(appName))
    /\ (LauncherGenerated /\ InstallFailed) =>
          /\ Exists(fs, LauncherFile)
          /\ fs[LauncherFile].content =
                desktopFileContent(appPath, appName, options.packager.targetUrl.v)
          /\ fs[LauncherFile].mode = Mode755

\* the system install ran to its end without a failure
InstallDone ==
    /\ pc = "done"
    /\ InstallRun
    /\ ~InstallFailed

\* the desktop entry desktop-entry generation composes for this build
GeneratedEntry == desktopFileContent(appPath, appName, options.packager.targetUrl.v)

\* C26: the desktop entry the system install writes into the per-user applications
\* directory is the generated entry with Exec and Icon pointing into /opt/<appName>
\* and every other key (Name, Comment with the target URL, Categories,
\* StartupWMClass, StartupNotify) as generated; the file is executable.
C26_InstalledEntryIsGeneratedEntryRelocated ==
    InstallDone =>
        /\ Exists(fs, desktopFileDest(appName))
        /\ fs[desktopFileDest(appName)].mode = Mode755
        /\ LET c == fs[desktopFileDest(appName)].content
           IN  /\ c.ExecPath = Join(optPath(appName), appName)
               /\ c.ExecArgs = GeneratedEntry.ExecArgs
               /\ c.Icon = Join3(optPath(appName), <<"resources">>, <<"app">>,
                                 <<"icon", ".png">>)
               /\ c.Name = GeneratedEntry.Name
               /\ c.Categories = GeneratedEntry.Categories
               /\ c.StartupWMClass = GeneratedEntry.StartupWMClass
               /\ c.StartupNotify = GeneratedEntry.StartupNotify
               /\ c.Comment = GeneratedEntry.Comment
               /\ c.Comment = <<"App for ">> \o options.packager.targetUrl.v

\* the operations of the system install on /opt/<appName> and on the per-user entry
InstallCopies == {Op("sudo cp", appPath, optPath(appName)), Op("copy", appPath, optPath(appName))}
EntryWrite == Op("writeFile", desktopFileDest(appName), NoPath)

\* the build directory is whole at /opt/<appName>, or inside it as cp -r puts it
\* into a directory that is there
InstalledWhole ==
    \/ CopiedOver(appPath, optPath(appName))
    \/ CopiedOver(appPath, Join(optPath(appName), Basename(appPath)))

\* the copy to /opt/<appName> was the last thing the system install did, and failed
InstallCopyFailed ==
    /\ pc = "done"
    /\ InstallRun
    /\ InstallFailed
    /\ LastOp \in InstallCopies

\* C27: the per-user desktop entry is written only after the copy of the build
\* directory to /opt/<appName> completed; when that copy fails, with sudo or as
\* root, no per-user entry is written, the failure is logged and the build returns
\* its path without an error.
C27_EntryWrittenAfterInstallCopy ==
    InstallRun =>
        /\ \A i \in 1..Len(ops) :
              ops[i] \in {EntryWrite, Op("ensureDir", desktopDir, NoPath)} =>
                  \E j \in 1..(i - 1) : ops[j] \in InstallCopies
        /\ pc \in {"installEnsureDir", "installWrite"} =>
              /\ IsDir(fs, appPath)
              /\ InstalledWhole
              /\ ~InstallFailed
        /\ pc = "installCopy" => \A i \in 1..Len(ops) : ops[i] # EntryWrite
        /\ InstallCopyFailed =>
              /\ \A i \in 1..Len(ops) : ops[i] # EntryWrite
              /\ "ensureDir" \notin OpNames
              /\ ~Exists(fs, desktopFileDest(appName))
              /\ result = appPath
              /\ error = NoError

C27_Witness ==
    /\ InstallRun
    /\ InstallCopyFailed
    /\ LastOp.op = "sudo cp"
    /\ IsDir(fs, appPath)
    /\ IsDir(fs, optPath(appName))
    /\ ~InstalledWhole
    /\ ~Exists(fs, desktopFileDest(appName))

InstallRemoves == {Op("sudo rm", optPath(appName), NoPath), Op("remove", optPath(appName), NoPath)}

\* whatever is at or under p is there as a copy of a part of the build directory
OnlyTheBuildAt(p) ==
    \A q \in Tree(fs, p) : \E r \in Tree(fs, appPath) : Reroot(appPath, p, r) = q

\* C28: with sudo and as root, the copy of the build directory to /opt/<appName> is
\* made only after the install that was at /opt/<appName> is removed: when the copy
\* starts nothing is at /opt/<appName>, and when it is over /opt/<appName> is the
\* build directory, with nothing under it that was there before.
C28_InstallCopyAfterPriorRemoved ==
    InstallRun =>
        /\ \A i \in 1..Len(ops) :
              ops[i] \in InstallCopies => i > 1 /\ ops[i - 1] \in InstallRemoves
        /\ pc = "installCopy" => ~Exists(fs, optPath(appName))
        /\ pc = "installEnsureDir" =>
              /\ OnlyTheBuildAt(optPath(appName))
              /\ CopiedOver(appPath, optPath(appName))

\* the path an operation of a build writes, creates or deletes; the creation of the
\* per-user applications directory, which is no build's own, is left out
Writes(o) ==
    IF o.op \in {"copy", "sudo cp", "prepareElectronApp"} THEN {o.b}
    ELSE IF o.op \in {"writeFile", "chmod", "remove", "sudo rm", "sudo chown", "getTempDir"}
    THEN {o.a}
    ELSE {}

\* the paths a build wrote: those of its operations and those the engine built for it
Written(os, arr) ==
    UNION {Writes(os[i]) : i \in 1..Len(os)}
    \cup IF arr = Undefined THEN {} ELSE {arr.v[i] : i \in 1..Len(arr.v)}

\* the two builds have distinct staging and output directories
DistinctDirectories ==
    /\ other # NoBuild
    /\ request.out # other.request.out
    /\ finalOutDirectory = NoPath \/ finalOutDirectory # other.finalOutDirectory
    /\ tmpPath = NoPath \/ tmpPath # other.tmpPath

\* C29: two builds with distinct staging and output directories, interleaved at
\* their awaits, write no path in common, and a build that did not ask for quiet
\* logging logs at the level it would log at alone.
C29_ConcurrentBuildsIsolated ==
    DistinctDirectories =>
        /\ Written(ops, appPathArray) \cap Written(other.ops, other.appPathArray) = {}
        /\ (pc # "start" /\ ~Truthy(request.quiet)) => logLevel = "warn"
        /\ (other.pc # "start" /\ ~Truthy(other.request.quiet)) => logLevel = "warn"

\* the replies sent for a request
RepliesTo(id) == {i \in 1..Len(app.replies) : app.replies[i].id = id}

\* the only reply sent for a request
TheReply(id) == app.replies[CHOOSE i \in RepliesTo(id) : TRUE]

\* C30: every 'session-interaction' request gets exactly one reply with its id: at
\* once with the value for a function result or a property value, once the promise
\* has settled, resolved or rejected, for a promise result, and at once with error
\* set and value undefined for a request with neither func nor property and for one
\* whose call throws.
C30_EveryRequestRepliedOnce ==
    \A k \in 1..Len(app.requests) :
        LET r == app.requests[k]
            n == Cardinality(RepliesTo(r.id))
        IN  /\ n <= 1
            /\ n = IF r.id \in app.pending THEN 0 ELSE 1
            /\ (r.outcome.kind = "returns" /\ r.outcome.value # Unclonable) =>
                  /\ TheReply(r.id).value = r.outcome.value
                  /\ TheReply(r.id).error = Undefined
            /\ r.outcome.kind \in {"none", "throws"} =>
                  /\ TheReply(r.id).value = Undefined
                  /\ TheReply(r.id).error # Undefined

\* the ids of the notifications forwarded to the main process
Forwarded == {app.sent[i].id : i \in {j \in 1..Len(app.sent) : app.sent[j].channel = "notification"}}

\* the notification forwarded last before the k-th was constructed, 0 when none was
LastForwardedBefore(k) ==
    IF \E j \in Forwarded : j < k
    THEN CHOOSE j \in Forwarded : j < k /\ \A i \in Forwarded : i < k => i <= j
    ELSE 0

\* the k-th notification repeats the one forwarded last within a second
Repeats(k) ==
    LET j == LastForwardedBefore(k)
    IN  /\ j # 0
        /\ app.rendererNotifications[j].title = app.rendererNotifications[k].title
        /\ app.constructed[k].at - app.constructed[j].at < 1000

\* C32: the k-th notification constructed has id k and a record in
\* rendererNotifications; one 'notification' message is sent for it unless its
\* normalized title is that of the notification forwarded last and less than 1000 ms
\* went by since, and then none is sent; the last-forwarded title and time are those
\* of the notification forwarded last.
C32_RepeatedNotificationNotForwarded ==
    /\ Len(app.constructed) = app.notificationCounter - 1
    /\ \A k \in 1..Len(app.constructed) :
          /\ app.constructed[k].id = k
          /\ k \in DOMAIN app.rendererNotifications
          /\ app.rendererNotifications[k].title = normalizedTitle(app.constructed[k].raw)
          /\ Cardinality({i \in 1..Len(app.sent) : app.sent[i].id = k})
                = IF Repeats(k) THEN 0 ELSE 1
          /\ \A i \in 1..Len(app.sent) :
                app.sent[i].id = k =>
                    /\ app.sent[i].channel = "notification"
                    /\ app.sent[i].title = app.rendererNotifications[k].title
    /\ LET j == LastForwardedBefore(app.notificationCounter)
       IN  IF j = 0 THEN app.lastWebNotification = Null
           ELSE app.lastWebNotification = [title |-> app.rendererNotifications[j].title,
                                           time |-> app.constructed[j].at]

C32_Witness ==
    /\ Len(app.constructed) = 3
    /\ app.constructed[1].raw = Num(5)
    /\ app.constructed[2].raw = Str(<<"5">>)
    /\ app.constructed[3].raw = Str(<<"5">>)
    /\ app.constructed[1].at = 0
    /\ app.constructed[2].at = 500
    /\ app.constructed[3].at = 1000
    /\ Forwarded = {1, 3}
    /\ app.lastWebNotification = [title |-> <<"5">>, time |-> 1000]

\* C31: for every notification, in any interleaving of close(), dispatchEvent and
\* 'notification-event' messages, with handlers that call close() among them, onclose
\* and each 'close' listener run at most once, the record is gone from
\* rendererNotifications once close was emitted, and no handler of the notification
\* runs after the record was removed.
C31_CloseHandlersRunOnce ==
    \A id \in DOMAIN app.observed :
        /\ app.observed[id].onclose <= 1
        /\ \A i \in 1..2 : app.observed[id].closeListeners[i] <= 1
        /\ app.observed[id].closeEmitted => id \notin DOMAIN app.rendererNotifications
        /\ ~app.observed[id].late

\* the numeric ids native notifications were registered for
RegisteredIds == {app.natives[k].id : k \in 1..Len(app.natives)} \cap {Num(1), Num(2), Num(3)}

\* C33: activeNativeNotifications maps an id exactly while a native notification
\* registered for that id has not emitted 'close', and maps it to such a notification;
\* a 'notification-close' message for an id with a live native notification closes a
\* live native notification of that id, one for an unknown or non-numeric id closes
\* nothing; a close event removes no entry but that of the notification that closed.
C33_ActiveMapTracksLiveNotifications ==
    /\ \A id \in RegisteredIds :
          /\ id.v \in DOMAIN app.activeNativeNotifications <=> LiveFor(app, id) # {}
          /\ id.v \in DOMAIN app.activeNativeNotifications
                => app.activeNativeNotifications[id.v] \in LiveFor(app, id)
    /\ DOMAIN app.activeNativeNotifications \subseteq {id.v : id \in RegisteredIds}
    /\ IF app.lastClose.id.t = "number" /\ app.lastClose.live # {}
       THEN app.lastClose.dismissed \in app.lastClose.live
       ELSE app.lastClose.dismissed = 0
    /\ app.lastRemoved.entry \in {0, app.lastRemoved.closed}

====
